---- MODULE Spec2Model ----
(***************************************************************************)
(* Post-processing of snatched downloads in LazyLibrarian:                 *)
(* lazylibrarian/postprocess.py (processDir, import_book,                  *)
(* processDestination, processExtras, delete_task, cron_processDir).       *)
(*                                                                         *)
(* Spec        one worker running reconciliation passes one after another  *)
(*             over one download directory, with the download clients,     *)
(*             the clock and the filesystem faults as the environment.     *)
(* SpecLive    SpecCalm where passes and hours go on, for liveness.        *)
(* SpecCalm    the same passes without faults, recording what a pass that  *)
(*             follows a completed pass, with nothing in between, does.    *)
(* SpecThreads the triggering of passes on several threads                 *)
(*             (cron_processDir and direct calls of processDir).           *)
(* SpecOrder   the statements that follow a commit, in their order.        *)
(* SpecCommit  processDestination: calibredb, or the copy loop file by file.*)
(* SpecMag     the magazines and issues upserts for issues in any order.   *)
(* SpecUnpack  unpack_archive and the directory it unpacks into.           *)
(* SpecRefresh the refresh of a request's name from its download client.   *)
(* SpecRPC     DelugeRPCClient.call (lib/deluge_client/client.py).         *)
(* SpecScore   the score of an entry name against a title, on strings.     *)
(* SpecAuth    the Deluge WebUI adapter: _get_auth and getTorrentFolder.   *)
(* SpecCrash   a request over passes of processDir that may be killed.     *)
(***************************************************************************)
EXTENDS Integers, FiniteSets, Sequences, TLC

(***************************************************************************)
(* Bounds of the model.                                                    *)
(***************************************************************************)
\* hours the clock may advance
MaxClock == 1
\* payloads the download clients may deliver into the download directory
MaxArrivals == 2
\* cap of the per-provider download counter
MaxCount == 1
\* calls made on one DelugeRPCClient
MaxRequests == 2
\* characters of a title or of an entry name
MaxLen == 3
\* files in a download folder handed to processDestination
MaxFiles == 3

(***************************************************************************)
(* Configuration read by the code.                                         *)
(***************************************************************************)
\* lazylibrarian.CONFIG['DLOAD_RATIO'], the match threshold
DLOAD_RATIO == 80

\* the configurations explored: keep seeding, keep original files, stale age
Configs ==
    { [KEEP_SEEDING |-> FALSE, DESTINATION_COPY |-> FALSE, TASK_AGE |-> 1],
      [KEEP_SEEDING |-> TRUE,  DESTINATION_COPY |-> FALSE, TASK_AGE |-> 0],
      [KEEP_SEEDING |-> FALSE, DESTINATION_COPY |-> TRUE,  TASK_AGE |-> 0] }

skipped_extensions ==
    {".fail", ".part", ".bts", ".!ut", ".torrent", ".magnet", ".nzb", ".unpack"}

(***************************************************************************)
(* The rows of the wanted table.  A row is identified by its NZBurl.       *)
(* Source, NZBmode and DownloadID never change; they are fixed per row.    *)
(***************************************************************************)
Recs == {"url1", "url2"}

\* the order in which SELECT returns the rows
RowOrder == <<"url1", "url2">>

Source(r) == IF r = "url1" THEN "DELUGERPC" ELSE "SABNZBD"

NZBmode(r) == IF r = "url1" THEN "torrent" ELSE "nzb"

DownloadID(r) == r

\* BookIDs found in wanted rows; "unknown" has no row in books or magazines
BookIDs == {"b1", "unknown"}

\* rows of the books table (each joined to an authors row)
Books == {"b1"}

AuxInfos == {"eBook", "AudioBook"}

Titles == {"The Great Escape", "Other Book"}

(***************************************************************************)
(* The download directory.  An entry name is a stem plus an extension; the *)
(* stem "Other_Book LL.(b1)" carries the item tag of book b1.              *)
(***************************************************************************)
Stems == {"The_Great_Escape", "Other_Book LL.(b1)"}

Exts == {"", ".epub", ".fail"}

Entries == [stem : Stems, ext : Exts]

\* two orders in which os.listdir may return the entries
ListingOrders ==
    { << [stem |-> "The_Great_Escape", ext |-> ""],
         [stem |-> "The_Great_Escape", ext |-> ".epub"],
         [stem |-> "The_Great_Escape", ext |-> ".fail"],
         [stem |-> "Other_Book LL.(b1)", ext |-> ""],
         [stem |-> "Other_Book LL.(b1)", ext |-> ".epub"],
         [stem |-> "Other_Book LL.(b1)", ext |-> ".fail"] >>,
      << [stem |-> "Other_Book LL.(b1)", ext |-> ".epub"],
         [stem |-> "Other_Book LL.(b1)", ext |-> ".fail"],
         [stem |-> "Other_Book LL.(b1)", ext |-> ""],
         [stem |-> "The_Great_Escape", ext |-> ".epub"],
         [stem |-> "The_Great_Escape", ext |-> ".fail"],
         [stem |-> "The_Great_Escape", ext |-> ""] >> }

\* kinds of file a directory may hold; "sub" is a nested directory
FileKinds == {"epub", "mp3"}

NoNode == [type |-> "none", files |-> {}]

FileNode == [type |-> "file", files |-> {}]

DirNode(c) == [type |-> "dir", files |-> c]

\* "LL.(" in entry, and entry.split("LL.(")[1].split(")")[0]
TagOf(e) == IF e.stem = "Other_Book LL.(b1)" THEN "b1" ELSE ""

\* os.path.splitext(fname)[1]
Extn(e) ==
    IF e.ext # "" THEN e.ext
    ELSE IF TagOf(e) # "" THEN ".(b1)" ELSE ""

\* fname.split(' LL.(')[0].replace('_', ' '), then the words fuzz compares
NameWords(e) ==
    IF e.stem = "Other_Book LL.(b1)" THEN {"other", "book"}
    ELSE {"the", "great", "escape"} \cup
         (IF e.ext = "" THEN {} ELSE {IF e.ext = ".epub" THEN "epub" ELSE "fail"})

TitleWords(t) ==
    IF t = "The Great Escape" THEN {"the", "great", "escape"}
    ELSE {"other", "book"}

\* fuzz.token_set_ratio on the word sets of the two strings
token_set_ratio(s1, s2) ==
    IF s1 = s2 THEN 100
    ELSE IF s1 \cap s2 # {} /\ (s1 \subseteq s2 \/ s2 \subseteq s1) THEN 100
    ELSE (200 * Cardinality(s1 \cap s2)) \div (Cardinality(s1) + Cardinality(s2))

Score(title, e) == token_set_ratio(TitleWords(title), NameWords(e))

\* is_valid_booktype(fname, booktype): the file kind a media kind wants
KindFile(book_type) == IF book_type = "AudioBook" THEN "mp3" ELSE "epub"

\* book_type derived from AuxInfo
BookType(aux) ==
    IF aux # "AudioBook" /\ aux # "eBook"
    THEN (IF aux = "" THEN "eBook" ELSE "Magazine")
    ELSE aux

(***************************************************************************)
(* State.                                                                  *)
(***************************************************************************)
VARIABLES
    CONFIG,      \* lazylibrarian.CONFIG
    wanted,      \* wanted table: row -> [BookID, AuxInfo, NZBtitle, Status]
    junk,        \* a row without NZBurl was inserted by an upsert
    books,       \* books table: book -> [Status, AudioStatus, BookFile, AudioFile]
    lib,         \* library: book -> kinds of file in its destination folder
    root,        \* the download directory still exists under its name
    fs,          \* entries of the download directory
    clock,       \* hours since the rows were snatched
    arrivals,    \* payloads delivered so far
    Count,       \* downloads.Count of the providers (capped)
    pc,          \* position of the worker in processDir
    downloads,   \* the listing the current loop walks
    snatched,    \* the rows the current loop still has to handle
    committed,   \* rows for which processDestination returned success
    removed,     \* delete_task calls of this pass: [row, remove_data]
    failedNow,   \* commits that failed in this pass: [row, path]
    sweepSeen,   \* rows and book statuses as the stale sweep found them
    dirty,       \* SpecCalm: the pass changed a status or committed
    calm,        \* SpecCalm: a pass has completed since the last outside change
    due,         \* SpecCalm: rows handled with their payload file in the directory
    tname,       \* SpecThreads: name of each thread
    tpc,         \* SpecThreads: position of each thread
    texc,        \* SpecThreads: the exception last raised in each thread's call
    handling,    \* SpecOrder: the request whose commit is being followed up
    hpc,         \* SpecOrder: position in the branches after processDestination
    hlog,        \* SpecOrder: what was done for the request, in order
    cpc,         \* SpecCommit: position in processDestination and after it
    job,         \* SpecCommit: media kind, files of pp_path at the call, listing left
    disk,        \* SpecCommit: files in pp_path and in dest_path, where pp_path is
    magazines,   \* SpecMag: magazines table: Title -> [IssueDate, LatestCover, IssueStatus]
    issues,      \* SpecMag: issues table: rows [Title, IssueDate]
    lastissue,   \* SpecMag: the issue last committed and what the magazine held then
    upc,         \* SpecUnpack: position in unpack_archive
    archive,     \* SpecUnpack: the archive being unpacked and the local targetdir
    unpackdir,   \* SpecUnpack: the directory title + '.unpack' in the download directory
    npc,         \* SpecRefresh: position in the refresh of a request's name
    naming,      \* SpecRefresh: the request, what its client answered, the titles
    request_id,  \* SpecRPC: DelugeRPCClient.request_id
    rpc,         \* SpecRPC: the call in progress or over: message decoded, outcome
    scored,      \* SpecScore: a title, an entry name and the score of the pair
    delugeweb_auth, \* SpecAuth: deluge.delugeweb_auth, the session cookies
    web,         \* SpecAuth: the call in progress or over and the replies it got
    redo         \* SpecCrash: a request, its files and rows over passes that may crash

threadvars == <<tname, tpc, texc>>

calmvars == <<dirty, calm, due>>

ordervars == <<handling, hpc, hlog>>

commitvars == <<cpc, job, disk>>

magvars == <<magazines, issues, lastissue>>

unpackvars == <<upc, archive, unpackdir>>

namevars == <<npc, naming>>

rpcvars == <<request_id, rpc>>

authvars == <<delugeweb_auth, web>>

sidevars == <<ordervars, commitvars, magvars, unpackvars, namevars, rpcvars,
              scored, authvars, redo>>

vars == <<CONFIG, wanted, junk, books, lib, root, fs, clock, arrivals, Count,
          pc, downloads, snatched, committed, removed, failedNow, sweepSeen,
          dirty, calm, due, tname, tpc, texc, sidevars>>

NoSweep ==
    [rows |-> {},
     books |-> [b \in Books |-> [Status |-> "", AudioStatus |-> "",
                                 BookFile |-> "", AudioFile |-> ""]]]

Threads == {"t1", "t2", "t3"}

\* names a thread may carry when it is started
StartNames == {"Thread-7", "SEARCHALLNZB"}

InitThreads ==
    /\ tname = [t \in Threads |-> "WEBSERVER"]
    /\ tpc = [t \in Threads |-> "idle"]
    /\ texc = [t \in Threads |-> ""]

\* nothing is being followed in detail
InitSide ==
    /\ handling = [on |-> FALSE]
    /\ hpc = "idle"
    /\ hlog = <<>>
    /\ cpc = "idle"
    /\ job = [booktype |-> "", copy |-> FALSE, one |-> FALSE, calibre |-> FALSE,
              bestmatch |-> "", before |-> {}, listing |-> <<>>, todo |-> <<>>,
              newbookfile |-> [dir |-> "", file |-> [stem |-> "", ext |-> ""]],
              reply |-> [res |-> {}, err |-> {}, rc |-> 0]]
    /\ disk = [pp |-> {}, dest |-> {}, made |-> FALSE, place |-> ""]
    /\ magazines = [m \in {"Numbered", "Dated"} |->
                      [IssueDate |-> <<>>, LatestCover |-> <<>>, IssueStatus |-> "Wanted"]]
    /\ issues = {}
    /\ lastissue = [on |-> FALSE]
    /\ upc = "idle"
    /\ archive = [kind |-> "", entries |-> {}, namelist |-> <<>>, targetdir |-> "",
                  denied |-> FALSE, raised |-> FALSE, made |-> 0, was |-> FALSE]
    /\ unpackdir = [isdir |-> FALSE, files |-> {}]
    /\ npc = "idle"
    /\ naming = [Source |-> "", was |-> "", NZBtitle |-> "", torrentname |-> "",
                 exc |-> "", matchtitle |-> ""]
    /\ request_id = 0
    /\ rpc = [at |-> "idle", data |-> <<>>, raised |-> "", retval |-> <<>>]
    /\ scored = [on |-> FALSE, title |-> <<>>, fname |-> <<>>, match |-> 0]
    /\ delugeweb_auth = ""
    /\ web = [at |-> "idle", caller |-> "", login |-> "", connected |-> "",
              hosts |-> "", connect |-> "", again |-> "", tries |-> 0,
              auth |-> "", out |-> ""]
    /\ redo = [at |-> "idle", passes |-> 0, crashes |-> 0, copy |-> FALSE,
               keep |-> FALSE,
               Status |-> "", source |-> FALSE, library |-> FALSE,
               BookFile |-> "", task |-> FALSE, notified |-> 0, Count |-> 0]

Init ==
    /\ CONFIG \in Configs
    /\ \E ids \in [Recs -> BookIDs], aux \in [Recs -> AuxInfos] :
          /\ \A r \in Recs : ids[r] = "unknown" => aux[r] = "eBook"
          /\ aux["url1"] = "eBook"
          /\ wanted = [r \in Recs |->
                         [BookID |-> ids[r], AuxInfo |-> aux[r],
                          NZBtitle |-> "The Great Escape", Status |-> "Snatched"]]
    /\ junk = FALSE
    /\ books = [b \in Books |->
                  [Status |-> IF \E r \in Recs : wanted[r].BookID = b
                                               /\ wanted[r].AuxInfo = "eBook"
                              THEN "Snatched" ELSE "Wanted",
                   AudioStatus |-> IF \E r \in Recs : wanted[r].BookID = b
                                                    /\ wanted[r].AuxInfo = "AudioBook"
                                   THEN "Snatched" ELSE "Wanted",
                   BookFile |-> "", AudioFile |-> ""]]
    /\ lib = [b \in Books |-> {}]
    /\ root = TRUE
    /\ fs = [e \in Entries |-> NoNode]
    /\ clock = 0
    /\ arrivals = 0
    /\ Count = 0
    /\ pc = "idle"
    /\ downloads = <<>>
    /\ snatched = <<>>
    /\ committed = {}
    /\ removed = {}
    /\ failedNow = {}
    /\ sweepSeen = NoSweep
    /\ dirty = FALSE
    /\ calm = FALSE
    /\ due = {}
    /\ InitThreads
    /\ InitSide

(***************************************************************************)
(* Helpers.                                                                *)
(***************************************************************************)
\* the faults the environment may inject into one step: at most one while
\* the step lists, scans and commits; "raise" is an exception no handler of
\* the loop body catches (os.listdir(pp_path) inside processDestination)
Faults ==
    {"none", "listdir", "mkdir", "subdir_move", "commit_dest", "commit_io", "raise"}

\* and at most one while it cleans up after the commit
CleanupFaults == {"none", "rmtree", "purge", "rename"}

\* a cleanup fault is injected only where it can act: the removal of the
\* source follows a commit without fault, the quarantine a failed commit
Together(fault, cfault) ==
    /\ cfault = "rmtree" => fault = "none"
    /\ cfault \in {"purge", "rename"} => fault \in {"commit_dest", "commit_io"}

\* a download client for which no request is a torrent
NoTorrentModes == {}

\* book['NZBmode'] in ['torrent', 'magnet', 'torznab']
TorrentModes == {"torrent", "magnet", "torznab"}

\* myDB.select('SELECT * from wanted WHERE Status="Snatched"')
SelectSnatched(w) == SelectSeq(RowOrder, LAMBDA r : w[r].Status = "Snatched")

\* os.listdir(download_dir), in the order the filesystem returns
Listing(f, order) == SelectSeq(order, LAMBDA e : f[e].type # "none")

\* myDB.upsert("wanted", {"Status": st, ...}, control), K the rows the control
\* selects: UPDATE them, or INSERT a new row when the UPDATE changed nothing
UpsertWanted(w, K, st) ==
    [rows |-> [r \in Recs |-> IF r \in K THEN [w[r] EXCEPT !.Status = st] ELSE w[r]],
     inserted |-> (K = {})]

\* myDB.action('UPDATE wanted SET ... WHERE ...'), K the rows selected
UpdateWanted(w, K, st) ==
    [r \in Recs |-> IF r \in K THEN [w[r] EXCEPT !.Status = st] ELSE w[r]]

Bump(n) == IF n < MaxCount THEN n + 1 ELSE n

DirOf(e) == [stem |-> e.stem, ext |-> ""]

FailOf(e) == [stem |-> e.stem, ext |-> ".fail"]

\* move_into_subdir(download_dir, targetdir, fname): the root file e goes
\* into its own subdirectory; a failure of the copy/move is only logged
move_into_subdir(f, e, copy, fault) ==
    IF fault = "subdir_move" THEN f
    ELSE [f EXCEPT ![DirOf(e)] = DirNode(f[DirOf(e)].files \cup {"epub"}),
                   ![e] = IF copy THEN FileNode ELSE NoNode]

\* an iteration that takes every entry for a full match
ScanEntryUnscored(st, e, r, matchtitle, book_type, cfg, fault) ==
    [st EXCEPT !.matches = Append(@, [score |-> 100, path |-> e])]

\* one iteration of "for fname in downloads" of the matching loop
ScanEntry(st, e, r, matchtitle, book_type, cfg, fault) ==
    IF Extn(e) # "" /\ Extn(e) \in skipped_extensions THEN st
    ELSE
      LET match == Score(matchtitle, e) IN
      IF match >= DLOAD_RATIO THEN
        IF st.fs[e].type = "file" THEN
          LET made == IF st.fs[DirOf(e)].type # "dir" /\ fault # "mkdir"
                      THEN [st.fs EXCEPT ![DirOf(e)] = DirNode({})]
                      ELSE st.fs
              copy == (NZBmode(r) \in TorrentModes /\ cfg.KEEP_SEEDING)
                      \/ cfg.DESTINATION_COPY
          IN  IF made[DirOf(e)].type = "dir"
              THEN [st EXCEPT !.fs = move_into_subdir(made, e, copy, fault)]
              ELSE [st EXCEPT !.fs = made]
        ELSE IF st.fs[e].type = "dir" THEN
          IF KindFile(book_type) \notin st.fs[e].files \/ st.fs[e].files = {}
          THEN st
          ELSE [st EXCEPT !.matches = Append(@, [score |-> match, path |-> e])]
        ELSE st
      ELSE [st EXCEPT !.matches = Append(@, [score |-> match, path |-> e])]

RECURSIVE Scan(_, _, _, _, _, _, _)
Scan(st, seq, r, matchtitle, book_type, cfg, fault) ==
    IF seq = <<>> THEN st
    ELSE Scan(ScanEntry(st, Head(seq), r, matchtitle, book_type, cfg, fault),
              Tail(seq), r, matchtitle, book_type, cfg, fault)

\* max(matches, key=lambda x: x[0]): the first entry holding the top score
Highest(ms) ==
    LET top == CHOOSE s \in {ms[i].score : i \in 1..Len(ms)} :
                   \A i \in 1..Len(ms) : ms[i].score <= s
        first == CHOOSE i \in 1..Len(ms) :
                   /\ ms[i].score = top
                   /\ \A j \in 1..(i - 1) : ms[j].score # top
    IN  ms[first]

\* processDestination without calibre: files is what pp_path holds
processDestination(files, book_type, copy, fault) ==
    IF KindFile(book_type) \notin files
    THEN [success |-> FALSE, src |-> files, added |-> {}]
    ELSE IF fault \in {"commit_dest", "commit_io"}
    THEN [success |-> FALSE, src |-> files, added |-> {}]
    ELSE [success |-> TRUE,
          src |-> IF copy THEN files ELSE files \ {KindFile(book_type)},
          added |-> {KindFile(book_type)}]

\* processExtras: the books row of the imported item
processExtras(bk, bookid, book_type) ==
    IF bookid \notin Books THEN bk
    ELSE IF book_type = "AudioBook"
    THEN [bk EXCEPT ![bookid].AudioStatus = "Open", ![bookid].AudioFile = "lib"]
    ELSE [bk EXCEPT ![bookid].Status = "Open", ![bookid].BookFile = "lib"]

\* 'UPDATE books SET status="Wanted" WHERE BookID=?' (audiostatus for audio)
ResetWanted(bk, bookid, book_type) ==
    IF bookid \notin Books THEN bk
    ELSE IF book_type = "eBook" THEN [bk EXCEPT ![bookid].Status = "Wanted"]
    ELSE IF book_type = "AudioBook" THEN [bk EXCEPT ![bookid].AudioStatus = "Wanted"]
    ELSE bk

\* purge pp_path + '.fail' if it is a directory, then shutil.move(pp_path,
\* pp_path + '.fail'); moving onto an existing directory moves into it
Quarantine(f, p, cfault) ==
    LET q == FailOf(p)
        purged == IF f[q].type = "dir" /\ cfault # "purge"
                  THEN [f EXCEPT ![q] = NoNode] ELSE f
    IN  IF cfault = "rename" THEN purged
        ELSE IF purged[q].type = "dir"
        THEN IF "sub" \in purged[q].files THEN purged
             ELSE [purged EXCEPT ![q] = DirNode(@.files \cup {"sub"}), ![p] = NoNode]
        ELSE [purged EXCEPT ![q] = DirNode(f[p].files), ![p] = NoNode]

\* delete_task(Source, DownloadID, remove_data) was called for row r
Removal(r, remove_data) == [row |-> r, remove_data |-> remove_data]

(***************************************************************************)
(* processDir: the matching loop.                                          *)
(***************************************************************************)
\* the values a step leaves behind; Same is "nothing changed"
Same == [wanted |-> wanted, junk |-> junk, books |-> books, lib |-> lib,
         root |-> root, fs |-> fs, Count |-> Count, committed |-> committed,
         removed |-> removed, failedNow |-> failedNow, abort |-> FALSE]

\* the branch "not recognised, maybe deleted": upsert on BookID and Snatched
FailUnknown(w, bookid) ==
    UpsertWanted(w, {x \in Recs : w[x].BookID = bookid /\ w[x].Status = "Snatched"},
                 "Failed")

\* the branch "if success": upsert on NZBurl and Snatched, processExtras,
\* delete_task, removal of the source
CommitSucceeded(w, f, r, pp, pd, cfault) ==
    LET book == w[r]
        book_type == BookType(book.AuxInfo)
        up == UpsertWanted(w, {x \in {r} : w[x].Status = "Snatched"}, "Processed")
        seeding == NZBmode(r) \in TorrentModes /\ CONFIG.KEEP_SEEDING
        asked == /\ ~seeding
                 /\ Source(r) # ""
                 /\ DownloadID(r) \notin {"", "unknown"}
                 /\ Source(r) # "DIRECT"
        to_delete == ~seeding /\ ~CONFIG.DESTINATION_COPY
        left == [f EXCEPT ![pp] = DirNode(pd.src)]
    IN  [Same EXCEPT
           !.wanted = up.rows,
           !.junk = junk \/ up.inserted,
           !.books = processExtras(books, book.BookID, book_type),
           !.lib = [lib EXCEPT ![book.BookID] = @ \cup pd.added],
           !.fs = IF to_delete /\ cfault # "rmtree"
                  THEN [left EXCEPT ![pp] = NoNode] ELSE left,
           !.Count = Bump(Count),
           !.committed = committed \cup {r},
           !.removed = IF asked THEN removed \cup {Removal(r, FALSE)} ELSE removed]

\* the branch "else" of "if success": Failed, book reset to Wanted, quarantine
CommitFailed(w, f, r, pp, cfault) ==
    LET book == w[r]
        book_type == BookType(book.AuxInfo)
        up == UpsertWanted(w, {x \in {r} : w[x].Status = "Snatched"}, "Failed")
    IN  [Same EXCEPT
           !.wanted = up.rows,
           !.junk = junk \/ up.inserted,
           !.books = ResetWanted(books, book.BookID, book_type),
           !.fs = Quarantine(f, pp, cfault),
           !.failedNow = failedNow \cup {[row |-> r, path |-> pp]}]

\* one iteration of "for book in snatched": tn is the name the download
\* client reports ("" when it reports none or the call fails)
HandleRow(r, tn, fault, cfault) ==
    LET book == wanted[r]
        renamed == tn # "" /\ tn # book.NZBtitle
        matchtitle == IF renamed THEN tn ELSE book.NZBtitle
        w0 == IF renamed THEN [wanted EXCEPT ![r].NZBtitle = tn] ELSE wanted
        book_type == BookType(book.AuxInfo)
        sc == Scan([fs |-> fs, matches |-> <<>>], downloads, r, matchtitle,
                   book_type, CONFIG, fault)
        found == sc.matches # <<>> /\ Highest(sc.matches).score >= DLOAD_RATIO
        pp == Highest(sc.matches).path
    IN  IF ~found
        THEN [Same EXCEPT !.wanted = w0, !.fs = sc.fs]
        ELSE IF book.BookID \notin Books
        THEN [Same EXCEPT !.wanted = FailUnknown(w0, book.BookID).rows,
                          !.junk = junk \/ FailUnknown(w0, book.BookID).inserted,
                          !.fs = sc.fs]
        ELSE IF fault = "raise"
        THEN [Same EXCEPT !.wanted = w0, !.fs = sc.fs, !.abort = TRUE]
        ELSE LET pd == processDestination(sc.fs[pp].files, book_type,
                                          CONFIG.DESTINATION_COPY, fault)
             IN  IF pd.success
                 THEN CommitSucceeded(w0, sc.fs, r, pp, pd, cfault)
                 ELSE CommitFailed(w0, sc.fs, r, pp, cfault)

Apply(res) ==
    /\ wanted' = res.wanted
    /\ junk' = res.junk
    /\ books' = res.books
    /\ lib' = res.lib
    /\ root' = res.root
    /\ fs' = res.fs
    /\ Count' = res.Count
    /\ committed' = res.committed
    /\ removed' = res.removed
    /\ failedNow' = res.failedNow

\* processDir up to the first SELECT: list the directory, select the rows;
\* F is the set of faults the environment may inject
StartPass(F) ==
    /\ pc = "idle"
    /\ \E order \in ListingOrders, fault \in F \cap {"none", "listdir"} :
         IF root /\ fault = "listdir"
         THEN /\ pc' = "end"
              /\ downloads' = <<>>
              /\ snatched' = <<>>
         ELSE LET dl == IF root THEN Listing(fs, order) ELSE <<>>
                  sn == SelectSnatched(wanted)
              IN  /\ pc' = "match"
                  /\ downloads' = dl
                  /\ snatched' = IF Len(sn) > 0 /\ Len(dl) > 0 THEN sn ELSE <<>>
    /\ UNCHANGED <<CONFIG, wanted, junk, books, lib, root, fs, clock, arrivals,
                   Count, committed, removed, failedNow, sweepSeen, threadvars, sidevars>>

\* one row of the matching loop; fresh tells whether the download client
\* may report a name other than the stored title, F and C the faults; an
\* exception nothing in the loop catches ends the pass in the handler at the
\* end of processDir, the rows not yet handled left as they are
Handle(F, C, fresh) ==
    /\ pc = "match"
    /\ snatched # <<>>
    /\ \E tn \in Titles \cup {""}, fault \in F \ {"listdir"}, cfault \in C :
         /\ Together(fault, cfault)
         /\ Source(Head(snatched)) # "DELUGERPC" => tn = ""
         /\ ~fresh => tn \in {"", wanted[Head(snatched)].NZBtitle}
         /\ LET res == HandleRow(Head(snatched), tn, fault, cfault) IN
              /\ fault = "raise" => res.abort
              /\ Apply(res)
              /\ pc' = IF res.abort THEN "end" ELSE pc
    /\ snatched' = Tail(snatched)
    /\ UNCHANGED <<CONFIG, clock, arrivals, downloads, sweepSeen, threadvars, sidevars>>

(***************************************************************************)
(* processDir: the sweep for entries tagged "LL.(bookid)", and import_book.*)
(***************************************************************************)
Emptied == [e \in Entries |-> NoNode]

\* the book files lying directly in the download directory
RootFiles == {e \in Entries : e.ext = ".epub" /\ fs[e].type = "file"}

\* what pp_path holds: a directory entry, or the download directory itself
Holds(pp) ==
    IF pp.root THEN (IF RootFiles # {} THEN {"epub"} ELSE {}) ELSE fs[pp.entry].files

\* the rows import_book finds Snatched for the BookID
WasSnatched(bookID) ==
    {x \in Recs : wanted[x].BookID = bookID /\ wanted[x].Status = "Snatched"}

\* the rows of was_snatched that ask for the media kind found in pp_path
AskedFor(bookID, book_type) ==
    {x \in WasSnatched(bookID) : BookType(wanted[x].AuxInfo) = book_type}

\* import_book, "if success"
ImportSucceeded(pp, bookID, book_type, pd, cfault) ==
    LET was == WasSnatched(bookID)
        up == UpsertWanted(wanted, {x \in Recs : wanted[x].BookID = bookID},
                           "Processed")
        moved == IF pp.root
                 THEN [e \in Entries |-> IF e \in RootFiles THEN NoNode ELSE fs[e]]
                 ELSE [fs EXCEPT ![pp.entry] = DirNode(pd.src)]
        gone == ~CONFIG.DESTINATION_COPY /\ cfault # "rmtree"
    IN  [Same EXCEPT
           !.wanted = IF was # {} THEN up.rows ELSE wanted,
           !.junk = junk \/ (was # {} /\ up.inserted),
           !.books = processExtras(books, bookID, book_type),
           !.lib = [lib EXCEPT ![bookID] = @ \cup pd.added],
           !.root = IF pp.root /\ gone THEN FALSE ELSE root,
           !.fs = IF CONFIG.DESTINATION_COPY THEN fs
                  ELSE IF ~gone THEN moved
                  ELSE IF pp.root THEN Emptied
                  ELSE [moved EXCEPT ![pp.entry] = NoNode],
           !.Count = Bump(Count),
           !.committed = committed \cup AskedFor(bookID, book_type)]

\* import_book, "else": quarantine, then the first Snatched row of the
\* BookID is set Failed and the book is reset to Wanted
ImportFailed(pp, bookID, book_type, cfault) ==
    LET was == SelectSeq(RowOrder, LAMBDA x : x \in WasSnatched(bookID))
        up == UpsertWanted(wanted, {Head(was)}, "Failed")
    IN  [Same EXCEPT
           !.wanted = IF was # <<>> THEN up.rows ELSE wanted,
           !.books = IF book_type = "AudioBook"
                     THEN [books EXCEPT ![bookID].AudioStatus = "Wanted"]
                     ELSE [books EXCEPT ![bookID].Status = "Wanted"],
           !.root = IF pp.root /\ cfault # "rename" THEN FALSE ELSE root,
           !.fs = IF pp.root
                  THEN (IF cfault # "rename" THEN Emptied ELSE fs)
                  ELSE Quarantine(fs, pp.entry, cfault)]

import_book(pp, bookID, fault, cfault) ==
    LET book_type == IF "mp3" \in Holds(pp) THEN "AudioBook"
                     ELSE IF "epub" \in Holds(pp) THEN "eBook" ELSE ""
        was == WasSnatched(bookID)
        want_audio == \E x \in was : wanted[x].AuxInfo = "AudioBook"
        want_ebook == \E x \in was : wanted[x].AuxInfo \in {"eBook", ""}
        match == \/ want_audio /\ book_type = "AudioBook"
                 \/ want_ebook /\ book_type = "eBook"
                 \/ was = {}
        pd == processDestination(Holds(pp), book_type, CONFIG.DESTINATION_COPY, fault)
    IN  IF book_type = "" \/ bookID \notin Books \/ ~match THEN Same
        ELSE IF pd.success THEN ImportSucceeded(pp, bookID, book_type, pd, cfault)
        ELSE ImportFailed(pp, bookID, book_type, cfault)

\* one iteration of "for entry in downloads" of the sweep
SweepRow(e, fault, cfault) ==
    IF TagOf(e) = "" \/ (Extn(e) # "" /\ Extn(e) \in skipped_extensions) THEN Same
    ELSE IF /\ TagOf(e) \in Books
            /\ books[TagOf(e)].BookFile # ""
            /\ "epub" \in lib[TagOf(e)]
    THEN Same
    ELSE IF fs[e].type = "file" /\ root
    THEN import_book([root |-> TRUE, entry |-> e], TagOf(e), fault, cfault)
    ELSE IF fs[e].type = "dir"
    THEN import_book([root |-> FALSE, entry |-> e], TagOf(e), fault, cfault)
    ELSE Same

\* "do a fresh listdir in case we processed and deleted any earlier"; an
\* OSError here ends the pass through the handler at the end of processDir
SweepBegin(F) ==
    /\ pc = "match"
    /\ snatched = <<>>
    /\ \E order \in ListingOrders, fault \in F \cap {"none", "listdir"} :
         IF root /\ fault = "listdir"
         THEN /\ pc' = "end"
              /\ downloads' = <<>>
         ELSE /\ pc' = "sweep"
              /\ downloads' = IF root THEN Listing(fs, order) ELSE <<>>
    /\ UNCHANGED <<CONFIG, wanted, junk, books, lib, root, fs, clock, arrivals,
                   Count, snatched, committed, removed, failedNow, sweepSeen,
                   threadvars, sidevars>>

SweepOne(F, C) ==
    /\ pc = "sweep"
    /\ downloads # <<>>
    /\ \E fault \in F \ {"listdir", "mkdir", "subdir_move", "raise"}, cfault \in C :
         /\ Together(fault, cfault)
         /\ Apply(SweepRow(Head(downloads), fault, cfault))
    /\ downloads' = Tail(downloads)
    /\ UNCHANGED <<CONFIG, clock, arrivals, pc, snatched, sweepSeen, threadvars, sidevars>>

(***************************************************************************)
(* processDir: the sweep of the rows still Snatched after TASK_AGE hours.  *)
(***************************************************************************)
\* an age that never grows (diff = 0, as after the ValueError)
NoHours(r) == 0

\* int(diff / 3600) for a row: every row of the model was snatched at hour 0
Hours(r) == clock

\* the force-fail of a stale row with the books update lacking its
\* 'WHERE status="Snatched"' condition: the book is reset whatever its status
StaleRowUnguarded(r) ==
    LET book == wanted[r]
        book_type == BookType(book.AuxInfo)
        bk == IF book.BookID \notin Books THEN books
              ELSE IF book_type = "eBook"
              THEN [books EXCEPT ![book.BookID].Status = "Wanted"]
              ELSE [books EXCEPT ![book.BookID].AudioStatus = "Wanted"]
    IN  IF Hours(r) >= CONFIG.TASK_AGE /\ book.BookID # "unknown"
        THEN [Same EXCEPT
                !.books = bk,
                !.wanted = UpdateWanted(wanted,
                               {x \in Recs : wanted[x].BookID = book.BookID}, "Failed"),
                !.removed = removed \cup {Removal(r, TRUE)}]
        ELSE Same

\* one iteration of "for book in snatched" of the stale sweep
StaleRow(r) ==
    LET book == wanted[r]
        book_type == BookType(book.AuxInfo)
        bk == IF book.BookID \notin Books THEN books
              ELSE IF book_type = "eBook" /\ books[book.BookID].Status = "Snatched"
              THEN [books EXCEPT ![book.BookID].Status = "Wanted"]
              ELSE IF book_type = "AudioBook"
                      /\ books[book.BookID].AudioStatus = "Snatched"
              THEN [books EXCEPT ![book.BookID].AudioStatus = "Wanted"]
              ELSE books
    IN  IF Hours(r) >= CONFIG.TASK_AGE /\ book.BookID # "unknown"
        THEN [Same EXCEPT
                !.books = bk,
                !.wanted = UpdateWanted(wanted,
                               {x \in Recs : wanted[x].BookID = book.BookID}, "Failed"),
                !.removed = removed \cup {Removal(r, TRUE)}]
        ELSE Same

StaleBegin ==
    /\ pc = "sweep"
    /\ downloads = <<>>
    /\ pc' = "stale"
    /\ snatched' = IF CONFIG.TASK_AGE # 0 THEN SelectSnatched(wanted) ELSE <<>>
    /\ sweepSeen' = IF CONFIG.TASK_AGE # 0
                    THEN [rows |-> {r \in Recs : wanted[r].Status = "Snatched"},
                          books |-> books]
                    ELSE NoSweep
    /\ UNCHANGED <<CONFIG, wanted, junk, books, lib, root, fs, clock, arrivals,
                   Count, downloads, committed, removed, failedNow, threadvars, sidevars>>

StaleOne ==
    /\ pc = "stale"
    /\ snatched # <<>>
    /\ Apply(StaleRow(Head(snatched)))
    /\ snatched' = Tail(snatched)
    /\ UNCHANGED <<CONFIG, clock, arrivals, pc, downloads, sweepSeen, threadvars, sidevars>>

\* the stale sweep is over: the pass has run to its end
EndPass ==
    /\ pc = "stale"
    /\ snatched = <<>>
    /\ pc' = "end"
    /\ UNCHANGED <<CONFIG, wanted, junk, books, lib, root, fs, clock, arrivals,
                   Count, downloads, snatched, committed, removed, failedNow,
                   sweepSeen, threadvars, sidevars>>

\* processDir returns
Return ==
    /\ pc = "end"
    /\ pc' = "idle"
    /\ downloads' = <<>>
    /\ snatched' = <<>>
    /\ removed' = {}
    /\ failedNow' = {}
    /\ sweepSeen' = NoSweep
    /\ UNCHANGED <<CONFIG, wanted, junk, books, lib, root, fs, clock, arrivals,
                   Count, committed, threadvars, sidevars>>

(***************************************************************************)
(* The environment between two passes.                                     *)
(***************************************************************************)
\* a download client delivers a payload: a book file in the download
\* directory, or a folder holding an ebook or an audiobook
Deliver ==
    /\ pc = "idle"
    /\ root
    /\ arrivals < MaxArrivals
    /\ \E s \in Stems, shape \in {"file", "epub", "mp3"} :
         LET e == [stem |-> s, ext |-> IF shape = "file" THEN ".epub" ELSE ""] IN
         /\ fs[e].type = "none"
         /\ fs' = [fs EXCEPT ![e] = IF shape = "file" THEN FileNode
                                    ELSE DirNode({shape})]
    /\ arrivals' = arrivals + 1
    /\ UNCHANGED <<CONFIG, wanted, junk, books, lib, root, clock, Count, pc,
                   downloads, snatched, committed, removed, failedNow,
                   sweepSeen, threadvars, sidevars>>

\* an hour passes; the clock is read only where TASK_AGE is set
Hour ==
    /\ pc = "idle"
    /\ clock < MaxClock
    /\ CONFIG.TASK_AGE # 0
    /\ clock' = clock + 1
    /\ UNCHANGED <<CONFIG, wanted, junk, books, lib, root, fs, arrivals, Count,
                   pc, downloads, snatched, committed, removed, failedNow,
                   sweepSeen, threadvars, sidevars>>

(***************************************************************************)
(* Spec: passes of one worker, with every fault and every reported name.   *)
(***************************************************************************)
PassStart == StartPass(Faults) /\ UNCHANGED calmvars

HandleRequest == Handle(Faults, CleanupFaults, TRUE) /\ UNCHANGED calmvars

SweepStart == SweepBegin(Faults) /\ UNCHANGED calmvars

SweepEntry == SweepOne(Faults, CleanupFaults) /\ UNCHANGED calmvars

StaleStart == StaleBegin /\ UNCHANGED calmvars

StaleStep == StaleOne /\ UNCHANGED calmvars

PassEnd == EndPass /\ UNCHANGED calmvars

Finish == Return /\ UNCHANGED calmvars

Arrive == Deliver /\ UNCHANGED calmvars

Tick == Hour /\ UNCHANGED calmvars

Next ==
    \/ PassStart
    \/ HandleRequest
    \/ SweepStart
    \/ SweepEntry
    \/ StaleStart
    \/ StaleStep
    \/ PassEnd
    \/ Finish
    \/ Arrive
    \/ Tick

Spec == Init /\ [][Next]_vars

(***************************************************************************)
(* SpecCalm: the same passes in a quiet environment (no fault, no download *)
(* renamed by its client), recording what each pass changes.               *)
(***************************************************************************)
\* the step changes a status of a row or of a book, or commits
Transition ==
    \/ \E r \in Recs : wanted'[r].Status # wanted[r].Status
    \/ \E b \in Books : \/ books'[b].Status # books[b].Status
                        \/ books'[b].AudioStatus # books[b].AudioStatus
    \/ committed' # committed
    \/ Count' # Count
    \/ lib' # lib

Quiet == {"none"}

CalmPassStart == StartPass(Quiet) /\ dirty' = FALSE /\ UNCHANGED <<calm, due>>

\* the row about to be handled is an ebook request of a known book, and an
\* ebook file lying directly in the download directory clears the threshold
PayloadInRoot(r) ==
    /\ wanted[r].BookID \in Books
    /\ BookType(wanted[r].AuxInfo) = "eBook"
    /\ \E i \in 1..Len(downloads) :
          /\ downloads[i].ext = ".epub"
          /\ fs[downloads[i]].type = "file"
          /\ Score(wanted[r].NZBtitle, downloads[i]) >= DLOAD_RATIO

CalmHandleRequest ==
    /\ Handle(Quiet, Quiet, FALSE)
    /\ dirty' = (dirty \/ Transition)
    /\ due' = IF PayloadInRoot(Head(snatched)) THEN due \cup {Head(snatched)} ELSE due
    /\ UNCHANGED calm

CalmSweepStart == SweepBegin(Quiet) /\ UNCHANGED calmvars

CalmSweepEntry ==
    SweepOne(Quiet, Quiet) /\ dirty' = (dirty \/ Transition) /\ UNCHANGED <<calm, due>>

CalmStaleStart == StaleBegin /\ UNCHANGED calmvars

CalmStaleStep ==
    StaleOne /\ dirty' = (dirty \/ Transition) /\ UNCHANGED <<calm, due>>

CalmPassEnd == EndPass /\ UNCHANGED calmvars

CalmFinish == Return /\ calm' = TRUE /\ dirty' = FALSE /\ due' = {}

CalmArrive == Deliver /\ calm' = FALSE /\ UNCHANGED <<dirty, due>>

CalmTick == Hour /\ calm' = FALSE /\ UNCHANGED <<dirty, due>>

NextCalm ==
    \/ CalmPassStart
    \/ CalmHandleRequest
    \/ CalmSweepStart
    \/ CalmSweepEntry
    \/ CalmStaleStart
    \/ CalmStaleStep
    \/ CalmPassEnd
    \/ CalmFinish
    \/ CalmArrive
    \/ CalmTick

SpecCalm == Init /\ [][NextCalm]_vars

(***************************************************************************)
(* SpecLive: SpecCalm where the passes go on and the hours pass.  The      *)
(* scheduler calls cron_processDir again and again and a pass, once        *)
(* started, runs on: weak fairness of the worker's steps.  The clock does  *)
(* not wait for the worker: the model lets an hour pass only between two   *)
(* passes, so the hour is strongly fair.                                   *)
(***************************************************************************)
\* the steps of a pass but those of the matching loop
CalmPass ==
    \/ CalmPassStart
    \/ CalmSweepStart
    \/ CalmSweepEntry
    \/ CalmStaleStart
    \/ CalmStaleStep
    \/ CalmPassEnd
    \/ CalmFinish

\* a step of the matching loop, told by what it does to the list it walks:
\* CalmHandleRequest is the only step of NextCalm that is one
LoopStep ==
    /\ pc = "match"
    /\ snatched # <<>>
    /\ snatched' = Tail(snatched)

\* every step of a pass changes its position or shortens a list it walks
passvars == <<pc, snatched, downloads>>

SpecLive ==
    SpecCalm /\ WF_passvars(CalmPass) /\ WF_snatched(LoopStep) /\ SF_clock(CalmTick)

(***************************************************************************)
(* SpecThreads: how passes are triggered.  cron_processDir looks for a     *)
(* thread named POSTPROCESS before it calls processDir; processDir renames *)
(* its thread on entry and names it WEBSERVER when it leaves.              *)
(***************************************************************************)
mainvars == <<CONFIG, wanted, junk, books, lib, root, fs, clock, arrivals, Count,
              pc, downloads, snatched, committed, removed, failedNow, sweepSeen,
              dirty, calm, due, sidevars>>

\* threading.enumerate(): the threads that are alive
Alive == {t \in Threads : tpc[t] \notin {"idle", "escaped"}}

\* the exceptions the body of a pass raises, each with its base classes
Raised == {"OSError", "ValueError", "OperationalError"}

Bases(e) ==
    IF e = "OSError" THEN {"OSError", "EnvironmentError", "StandardError", "Exception"}
    ELSE IF e = "ValueError" THEN {"ValueError", "StandardError", "Exception"}
    ELSE {"OperationalError", "DatabaseError", "Error", "StandardError", "Exception"}

\* cron_processDir: the scheduler starts thread t, which tests the guard
CronTrigger(t) ==
    /\ tpc[t] = "idle"
    /\ \E nm \in StartNames :
         /\ tname' = [tname EXCEPT ![t] = nm]
         /\ tpc' = [tpc EXCEPT ![t] =
                      IF \A u \in Alive : tname[u] # "POSTPROCESS"
                      THEN "call" ELSE "idle"]
    /\ texc' = [texc EXCEPT ![t] = ""]
    /\ UNCHANGED mainvars

\* cron_processDir calls processDir after the guard
CronCall(t) ==
    /\ tpc[t] = "call"
    /\ tpc' = [tpc EXCEPT ![t] = "entry"]
    /\ UNCHANGED <<tname, texc, mainvars>>

\* processDir called directly on thread t
DirectCall(t) ==
    /\ tpc[t] = "idle"
    /\ \E nm \in StartNames : tname' = [tname EXCEPT ![t] = nm]
    /\ tpc' = [tpc EXCEPT ![t] = "entry"]
    /\ texc' = [texc EXCEPT ![t] = ""]
    /\ UNCHANGED mainvars

\* processDir: 'if "Thread-" in threadname: name = "POSTPROCESS"'
Enter(t) ==
    /\ tpc[t] = "entry"
    /\ tname' = [tname EXCEPT ![t] =
                   IF tname[t] = "Thread-7" THEN "POSTPROCESS" ELSE tname[t]]
    /\ tpc' = [tpc EXCEPT ![t] = "pass"]
    /\ UNCHANGED <<texc, mainvars>>

\* the body of the pass on thread t runs to its end
Work(t) ==
    /\ tpc[t] = "pass"
    /\ tpc' = [tpc EXCEPT ![t] = "finally"]
    /\ UNCHANGED <<tname, texc, mainvars>>

\* os.listdir(download_dir) raises OSError: the name is reset and the call
\* returns from inside the try
EarlyReturn(t) ==
    /\ tpc[t] = "pass"
    /\ tname' = [tname EXCEPT ![t] = "WEBSERVER"]
    /\ tpc' = [tpc EXCEPT ![t] = "finally"]
    /\ UNCHANGED <<texc, mainvars>>

\* a statement of the body raises
Raise(t) ==
    /\ tpc[t] = "pass"
    /\ \E e \in Raised : texc' = [texc EXCEPT ![t] = e]
    /\ tpc' = [tpc EXCEPT ![t] = "except"]
    /\ UNCHANGED <<tname, mainvars>>

\* a handler that names OSError only
CaughtOSError(e) == "OSError" \in Bases(e)

\* 'except Exception:' handles the exception in flight
Caught(e) == "Exception" \in Bases(e)

\* the except clause: a handled exception is logged, any other stays in
\* flight while the finally clause runs
Except(t) ==
    /\ tpc[t] = "except"
    /\ tpc' = [tpc EXCEPT ![t] = IF Caught(texc[t]) THEN "finally" ELSE "unwind"]
    /\ UNCHANGED <<tname, texc, mainvars>>

\* the call ends and the thread keeps the name it has
LeaveNamed(t) ==
    /\ tpc[t] \in {"finally", "unwind"}
    /\ tpc' = [tpc EXCEPT ![t] = IF tpc[t] = "finally" THEN "idle" ELSE "escaped"]
    /\ UNCHANGED <<tname, texc, mainvars>>

\* 'finally: threading.currentThread().name = "WEBSERVER"'; then the call
\* returns, or the exception still in flight reaches the caller
Leave(t) ==
    /\ tpc[t] \in {"finally", "unwind"}
    /\ tname' = [tname EXCEPT ![t] = "WEBSERVER"]
    /\ tpc' = [tpc EXCEPT ![t] = IF tpc[t] = "finally" THEN "idle" ELSE "escaped"]
    /\ UNCHANGED <<texc, mainvars>>

InitT ==
    /\ Init
    /\ CONFIG = [KEEP_SEEDING |-> FALSE, DESTINATION_COPY |-> FALSE, TASK_AGE |-> 1]
    /\ \A r \in Recs : wanted[r].BookID = "b1" /\ wanted[r].AuxInfo = "eBook"

NextT ==
    \E t \in Threads :
        \/ CronTrigger(t)
        \/ CronCall(t)
        \/ DirectCall(t)
        \/ Enter(t)
        \/ Work(t)
        \/ EarlyReturn(t)
        \/ Raise(t)
        \/ Except(t)
        \/ Leave(t)

SpecThreads == InitT /\ [][NextT]_vars

(***************************************************************************)
(* SpecOrder: the statements of processDir that follow the return of       *)
(* processDestination for one request, one statement group at a time.      *)
(***************************************************************************)
basevars == <<CONFIG, wanted, junk, books, lib, root, fs, clock, arrivals, Count,
              pc, downloads, snatched, committed, removed, failedNow, sweepSeen,
              dirty, calm, due, tname, tpc, texc>>

restOrder == <<basevars, commitvars, magvars, unpackvars,
               namevars, rpcvars, scored, authvars, redo>>

restCommit == <<basevars, ordervars, magvars, unpackvars,
                namevars, rpcvars, scored, authvars, redo>>

restMag == <<basevars, ordervars, commitvars, unpackvars,
             namevars, rpcvars, scored, authvars, redo>>

restUnpack == <<basevars, ordervars, commitvars, magvars,
                namevars, rpcvars, scored, authvars, redo>>

restRefresh == <<basevars, ordervars, commitvars, magvars,
                 unpackvars, rpcvars, scored, authvars, redo>>

restRPC == <<basevars, ordervars, commitvars, magvars,
             unpackvars, namevars, scored, authvars, redo>>

restScore == <<basevars, ordervars, commitvars, magvars,
               unpackvars, namevars, rpcvars, authvars, redo>>

restAuth == <<basevars, ordervars, commitvars, magvars,
              unpackvars, namevars, rpcvars, scored, redo>>

restCrash == <<basevars, ordervars, commitvars, magvars,
               unpackvars, namevars, rpcvars, scored, authvars>>

\* the requests followed: a book or a magazine issue, its download client,
\* the settings read after the commit and the kind of path that matched
Requests ==
    [on : {TRUE}, bookname : BOOLEAN, NZBmode : {"torrent", "nzb"},
     Source : {"", "DIRECT", "DELUGERPC"}, DownloadID : {"unknown", "d1"},
     KEEP_SEEDING : BOOLEAN, DESTINATION_COPY : BOOLEAN,
     pp_path : {"dir", "unpack"}]

Logged(ev) == hlog' = Append(hlog, ev)

\* to_delete after 'if book["NZBmode"] in [...]: if KEEP_SEEDING'
NotSeeding(q) == ~(q.NZBmode \in TorrentModes /\ q.KEEP_SEEDING)

\* processDir reaches processDestination with a matched request
OrderBegin ==
    /\ hpc \in {"idle", "done"}
    /\ handling' \in Requests
    /\ hpc' = "commit"
    /\ hlog' = <<>>
    /\ UNCHANGED restOrder

\* success, dest_file = processDestination(...)
CommitReturns ==
    /\ hpc = "commit"
    /\ \E success \in BOOLEAN :
         /\ hpc' = IF success THEN "upsert" ELSE "else"
         /\ Logged(IF success THEN "success" ELSE "failure")
    /\ UNCHANGED <<handling, restOrder>>

\* myDB.upsert("wanted", {"Status": "Processed", ...}, ...)
MarkProcessed ==
    /\ hpc = "upsert"
    /\ hpc' = "extras"
    /\ Logged("Processed")
    /\ UNCHANGED <<handling, restOrder>>

\* processExtras for a book, the magazines and issues upserts for an issue
UpdateItem ==
    /\ hpc = "extras"
    /\ hpc' = "task"
    /\ Logged("LibraryItem")
    /\ UNCHANGED <<handling, restOrder>>

\* delete_task(book['Source'], book['DownloadID'], False), if asked for
RemoveTask ==
    /\ hpc = "task"
    /\ hpc' = "source"
    /\ IF /\ NotSeeding(handling)
          /\ handling.Source # ""
          /\ handling.DownloadID \notin {"", "unknown"}
          /\ handling.Source # "DIRECT"
       THEN Logged("task_removed")
       ELSE UNCHANGED hlog
    /\ UNCHANGED <<handling, restOrder>>

\* shutil.rmtree(pp_path), unless the files are kept
DeleteSource ==
    /\ hpc = "source"
    /\ hpc' = "notify"
    /\ IF /\ NotSeeding(handling)
          /\ \/ ~handling.DESTINATION_COPY
             \/ handling.pp_path = "unpack"
       THEN Logged("source_deleted")
       ELSE UNCHANGED hlog
    /\ UNCHANGED <<handling, restOrder>>

\* custom_notify_download and notify_download
Notify ==
    /\ hpc = "notify"
    /\ hpc' = "count"
    /\ Logged("notified")
    /\ UNCHANGED <<handling, restOrder>>

\* update_downloads(book['NZBprov'])
CountDownload ==
    /\ hpc = "count"
    /\ hpc' = "done"
    /\ Logged("counted")
    /\ UNCHANGED <<handling, restOrder>>

\* the branch "else": the row is set Failed and the source quarantined
FailureBranch ==
    /\ hpc = "else"
    /\ hpc' = "done"
    /\ Logged("Failed")
    /\ UNCHANGED <<handling, restOrder>>

NextOrder ==
    \/ OrderBegin
    \/ CommitReturns
    \/ MarkProcessed
    \/ UpdateItem
    \/ RemoveTask
    \/ DeleteSource
    \/ Notify
    \/ CountDownload
    \/ FailureBranch

SpecOrder == InitT /\ [][NextOrder]_vars

(***************************************************************************)
(* SpecCommit: processDestination, which hands an ebook to calibredb or    *)
(* copies or moves the files itself, one file of os.listdir(pp_path) at a  *)
(* time, and the quarantine of pp_path that processDir performs when it    *)
(* returns failure.                                                        *)
(***************************************************************************)
\* the files an archive may hold
Files ==
    {[stem |-> "a", ext |-> "epub"], [stem |-> "b", ext |-> "epub"],
     [stem |-> "p", ext |-> "mp3"], [stem |-> "c", ext |-> "jpg"]}

\* the files a download folder may hold
Sources ==
    Files \cup {[stem |-> "a", ext |-> "mobi"], [stem |-> "a", ext |-> "EPUB"],
                [stem |-> "p 01", ext |-> "mp3"]}

\* os.listdir(pp_path): the files of S in any order
Orders(S) ==
    {q \in [1..Cardinality(S) -> S] : \A i, j \in DOMAIN q : i # j => q[i] # q[j]}

\* getList(lazylibrarian.CONFIG['EBOOK_TYPE']), in order of preference
EBOOK_TYPE == <<"epub", "mobi">>

\* extn.lower()
Lower(extn) == IF extn = "EPUB" THEN "epub" ELSE extn

\* is_valid_booktype(fname, booktype)
Valid(f, booktype) ==
    f.ext \in (IF booktype = "audiobook" THEN {"mp3"} ELSE {"epub", "mobi"})

\* bestmatch: with ONE_FORMAT, the first type of EBOOK_TYPE that the lower
\* case extension of some file of pp_path equals
BestMatch(q, booktype, one) ==
    LET held == SelectSeq(EBOOK_TYPE,
                          LAMBDA btype : \E i \in DOMAIN q : Lower(q[i].ext) = btype) IN
    IF booktype = "ebook" /\ one /\ held # <<>> THEN Head(held) ELSE ""

\* a commit that goes ahead whatever pp_path holds
AnyFolder(q, booktype, bestmatch) == TRUE

\* match: bestmatch, or whether pp_path holds a file of the wanted type
HasMatch(q, booktype, bestmatch) ==
    bestmatch # "" \/ \E i \in DOMAIN q : Valid(q[i], booktype)

\* "Ignoring %s as not %s": a book file that does not end with bestmatch
Ignored(f, booktype, bestmatch) ==
    bestmatch # "" /\ Valid(f, booktype) /\ f.ext # bestmatch

\* the files the loop copies: the book files, and .jpg and .opf files
Taken(f, booktype) == Valid(f, booktype) \/ f.ext = "jpg"

\* destfile: fname itself for an audiobook, else global_name plus the extension
DestFile(f, booktype) ==
    IF booktype = "audiobook" THEN [stem |-> f.stem, ext |-> f.ext]
    ELSE [stem |-> "global_name", ext |-> f.ext]

\* shutil.move(srcfile, destfile) may fail before it changed anything, or
\* after it copied the file and before it removed the source
MoveOutcomes == {"moved", "untouched", "copied"}

\* shutil.copyfile(srcfile, destfile) copies the file or fails
CopyOutcomes == {"copyfile", "untouched"}

\* dest_path after destfile was written from f: a file of that name is replaced
Written(dest, f, booktype) ==
    {d \in dest : d.name # DestFile(f, booktype)}
        \cup {[name |-> DestFile(f, booktype), from |-> f]}

\* newbookfile = ''
NoPath == [dir |-> "", file |-> [stem |-> "", ext |-> ""]]

\* no reply of calibredb yet
NoReply == [res |-> {}, err |-> {}, rc |-> 0]

\* res, err, rc of calibredb('add'), res and err as the phrases they hold
CalibreReplies ==
    [res : (SUBSET {"Added book ids", "already exist"}) \cup {{"text"}},
     err : {{}, {"already exist"}},
     rc  : {0, 1}]

\* an importer that only looks at the return code
RejectedByCode(reply) == reply.rc # 0

\* the three tests after calibredb('add') that return False
Rejected(reply) ==
    \/ reply.rc # 0 \/ reply.res = {}
    \/ "already exist" \in reply.err \/ "already exist" \in reply.res
    \/ "Added book ids" \notin reply.res

\* firstfile: the preferred ebook type present in dest_path, or the first
\* part of an audiobook found in pp_path by its token
FirstFile(booktype, listing, pp, dest) ==
    IF booktype = "ebook"
    THEN LET there == SelectSeq(EBOOK_TYPE, LAMBDA book_type :
                         \E d \in dest : d.name = [stem |-> "global_name",
                                                    ext |-> book_type]) IN
         IF there = <<>> THEN NoPath
         ELSE [dir |-> "dest_path",
               file |-> [stem |-> "global_name", ext |-> Head(there)]]
    ELSE IF booktype = "audiobook"
    THEN LET parts == SelectSeq(listing, LAMBDA f : /\ f \in pp
                                                    /\ Valid(f, "audiobook")
                                                    /\ f.stem = "p 01") IN
         IF parts = <<>> THEN NoPath ELSE [dir |-> "pp_path", file |-> Head(parts)]
    ELSE NoPath

\* processDestination is called on a folder: bestmatch, match, "if not match"
CommitBegin ==
    /\ cpc = "idle"
    /\ \E booktype \in {"ebook", "mag", "audiobook"}, copy \in BOOLEAN,
          one \in BOOLEAN, calibre \in BOOLEAN,
          S \in {T \in SUBSET Sources : Cardinality(T) \in 1..MaxFiles} :
         \E q \in Orders(S) :
            LET bestmatch == BestMatch(q, booktype, one) IN
            /\ job' = [booktype |-> booktype, copy |-> copy, one |-> one,
                       calibre |-> (calibre /\ booktype = "ebook"),
                       bestmatch |-> bestmatch, before |-> S, listing |-> q,
                       todo |-> q, newbookfile |-> NoPath, reply |-> NoReply]
            /\ disk' = [pp |-> S, dest |-> {}, made |-> FALSE, place |-> "pp_path"]
            /\ cpc' = IF ~HasMatch(q, booktype, bestmatch) THEN "nomatch"
                      ELSE IF calibre /\ booktype = "ebook" THEN "calibre"
                      ELSE "mkdir"
    /\ UNCHANGED restCommit

\* the calibre branch: the files are renamed inside pp_path, calibredb adds
\* pp_path, its reply is tested and the book is looked up in the library
CalibreImport ==
    /\ cpc = "calibre"
    /\ LET kept    == {f \in disk.pp : Ignored(f, job.booktype, job.bestmatch)}
           renamed == {[stem |-> "global_name", ext |-> f.ext] : f \in disk.pp \ kept} IN
         disk' = [disk EXCEPT !.pp = IF job.copy THEN @ \cup renamed
                                      ELSE kept \cup renamed]
    /\ \E raised \in BOOLEAN, reply \in CalibreReplies, located \in BOOLEAN :
         IF raised
         THEN /\ cpc' = "else"
              /\ UNCHANGED job
         ELSE /\ cpc' = IF ~Rejected(reply) /\ located THEN "returned" ELSE "else"
              /\ job' = [job EXCEPT
                           !.reply = reply,
                           !.newbookfile =
                              IF ~Rejected(reply) /\ located
                              THEN [dir |-> "calibre",
                                    file |-> [stem |-> "global_name", ext |-> "epub"]]
                              ELSE @]
    /\ UNCHANGED restCommit

\* os.makedirs(dest_path), after a file of that name was removed
CommitMakeDir ==
    /\ cpc = "mkdir"
    /\ \E made \in BOOLEAN :
         /\ disk' = [disk EXCEPT !.made = made]
         /\ cpc' = IF made THEN "loop" ELSE "else"
    /\ UNCHANGED <<job, restCommit>>

\* one iteration of "for fname in os.listdir(pp_path)" of the copy loop
MoveFile ==
    /\ cpc = "loop"
    /\ job.todo # <<>>
    /\ LET f == Head(job.todo) IN
         IF ~Ignored(f, job.booktype, job.bestmatch) /\ Taken(f, job.booktype)
         THEN \E out \in (IF job.copy THEN CopyOutcomes ELSE MoveOutcomes) :
                /\ disk' = [disk EXCEPT
                              !.pp = IF out = "moved" THEN @ \ {f} ELSE @,
                              !.dest = IF out = "untouched" THEN @
                                       ELSE Written(@, f, job.booktype)]
                /\ cpc' = IF out \in {"moved", "copyfile"} THEN "loop" ELSE "else"
                /\ job' = [job EXCEPT
                             !.todo = Tail(@),
                             !.newbookfile =
                                IF /\ out \in {"moved", "copyfile"}
                                   /\ Valid(DestFile(f, job.booktype), job.booktype)
                                THEN [dir |-> "dest_path",
                                      file |-> DestFile(f, job.booktype)]
                                ELSE @]
         ELSE /\ job' = [job EXCEPT !.todo = Tail(@)]
              /\ UNCHANGED <<disk, cpc>>
    /\ UNCHANGED restCommit

\* the loop is over: firstfile, then return True, newbookfile
CommitEnd ==
    /\ cpc = "loop"
    /\ job.todo = <<>>
    /\ LET firstfile == FirstFile(job.booktype, job.listing, disk.pp, disk.dest) IN
         job' = [job EXCEPT !.newbookfile = IF firstfile # NoPath THEN firstfile ELSE @]
    /\ cpc' = "returned"
    /\ UNCHANGED <<disk, restCommit>>

\* processDir, "else" of "if success": shutil.move(pp_path, pp_path + '.fail')
\* renames the folder, moves it into a quarantine folder that could not be
\* purged, or fails and leaves it
CommitQuarantine ==
    /\ cpc \in {"else", "nomatch"}
    /\ \E place \in {"pp_path.fail", "pp_path.fail/pp_path", "pp_path"} :
         disk' = [disk EXCEPT !.place = place]
    /\ cpc' = "failed"
    /\ UNCHANGED <<job, restCommit>>

NextCommit ==
    \/ CommitBegin
    \/ CalibreImport
    \/ CommitMakeDir
    \/ MoveFile
    \/ CommitEnd
    \/ CommitQuarantine

SpecCommit == InitT /\ [][NextCommit]_vars

(***************************************************************************)
(* SpecMag: the magazines and issues upserts of processDir after the       *)
(* commit of an issue.  A string is the sequence of its character codes.   *)
(***************************************************************************)
\* the issue tags of a magazine that numbers its issues: "2", "9", "10"
NumberTags == {<<50>>, <<57>>, <<49, 48>>}

\* and of one that dates them: "2015-12-01", "2016-01-01", "2016-02-01"
DateTags ==
    {<<50, 48, 49, 53, 45, 49, 50, 45, 48, 49>>,
     <<50, 48, 49, 54, 45, 48, 49, 45, 48, 49>>,
     <<50, 48, 49, 54, 45, 48, 50, 45, 48, 49>>}

Mags == {"Numbered", "Dated"}

TagsOf(m) == IF m = "Numbered" THEN NumberTags ELSE DateTags

IsDigit(c) == c \in 48..57

\* str.isdigit()
isdigit(str) == str # <<>> /\ \A i \in DOMAIN str : IsDigit(str[i])

\* int(str) of a string of digits
RECURSIVE int(_)
int(str) ==
    IF str = <<>> THEN 0
    ELSE 10 * int(SubSeq(str, 1, Len(str) - 1)) + (str[Len(str)] - 48)

\* a > b on strings: by the first character that differs, a prefix is smaller
RECURSIVE StrGreater(_, _)
StrGreater(a, b) ==
    IF a = <<>> THEN FALSE
    ELSE IF b = <<>> THEN TRUE
    ELSE IF Head(a) # Head(b) THEN Head(a) > Head(b)
    ELSE StrGreater(Tail(a), Tail(b))

\* older, computed on strings only
OlderByString(mostrecentissue, AuxInfo) ==
    IF mostrecentissue # <<>> THEN StrGreater(mostrecentissue, AuxInfo) ELSE FALSE

\* older: the issue being processed is older than the one the magazine holds
Older(mostrecentissue, AuxInfo) ==
    IF mostrecentissue # <<>>
    THEN IF isdigit(mostrecentissue) /\ isdigit(AuxInfo)
         THEN int(mostrecentissue) > int(AuxInfo)
         ELSE StrGreater(mostrecentissue, AuxInfo)
    ELSE FALSE

\* the commit of a Snatched issue of magazine m succeeded: the magazines
\* upsert, then the issues upsert
MagCommit ==
    /\ \E m \in Mags : \E AuxInfo \in TagsOf(m) :
         LET mostrecentissue == magazines[m].IssueDate
             older == Older(mostrecentissue, AuxInfo)
         IN  /\ magazines' = [magazines EXCEPT ![m] =
                   IF older THEN [@ EXCEPT !.IssueStatus = "Open"]
                   ELSE [IssueDate |-> AuxInfo, LatestCover |-> AuxInfo,
                         IssueStatus |-> "Open"]]
             /\ issues' = issues \cup {[Title |-> m, IssueDate |-> AuxInfo]}
             /\ lastissue' = [on |-> TRUE, Title |-> m, AuxInfo |-> AuxInfo,
                              held |-> magazines[m], rows |-> issues]
    /\ UNCHANGED restMag

NextMag == MagCommit

SpecMag == InitT /\ [][NextMag]_vars

(***************************************************************************)
(* SpecUnpack: unpack_archive on the archives matched for one title, one   *)
(* after another, and the removal of the directory they are unpacked into. *)
(***************************************************************************)
\* an extraction that takes every entry of the archive
AnyEntry(f) == TRUE

\* is_valid_booktype(item, "book") or (item, "audiobook") or (item, "mag")
Payload(f) == \E booktype \in {"book", "audiobook", "mag"} : Valid(f, booktype)

\* what pp_path may be: not a regular file, a file that is no archive, or a
\* zip, tar or rar file
Kinds == {"notfile", "unknown", "zip", "tar", "rar"}

\* zipfile.is_zipfile, tarfile.is_tarfile, rarfile.is_rarfile
Archives == {"zip", "tar", "rar"}

\* unpack_archive is called on pp_path; for an archive, z.namelist()
UnpackBegin ==
    /\ upc \in {"idle", "returned", "aborted"}
    /\ \E kind \in Kinds :
         IF kind \in Archives
         THEN /\ \E S \in SUBSET Files : \E q \in Orders(S) :
                   archive' = [kind |-> kind, entries |-> S, namelist |-> q,
                               targetdir |-> "", denied |-> FALSE, raised |-> FALSE,
                               made |-> 0, was |-> unpackdir.isdir]
              /\ upc' = "loop"
         ELSE /\ archive' = [kind |-> kind, entries |-> {}, namelist |-> <<>>,
                             targetdir |-> "", denied |-> FALSE, raised |-> FALSE,
                             made |-> 0, was |-> unpackdir.isdir]
              /\ upc' = "returned"
    /\ UNCHANGED <<unpackdir, restUnpack>>

\* one iteration of "for item in namelist"; os.makedirs may raise OSError,
\* which is caught, and open, z.read and f.write may raise, which is not
UnpackItem ==
    /\ upc = "loop"
    /\ archive.namelist # <<>>
    /\ LET item == Head(archive.namelist)
           made == IF unpackdir.isdir THEN archive.made ELSE archive.made + 1 IN
         IF ~Payload(item)
         THEN /\ archive' = [archive EXCEPT !.namelist = Tail(@)]
              /\ UNCHANGED <<upc, unpackdir>>
         ELSE \E outcome \in {"written", "unwritable"}
                               \cup (IF unpackdir.isdir THEN {} ELSE {"denied"}) :
                CASE outcome = "denied" ->
                       /\ archive' = [archive EXCEPT !.targetdir = "", !.denied = TRUE]
                       /\ upc' = "returned"
                       /\ UNCHANGED unpackdir
                  [] outcome = "unwritable" ->
                       /\ archive' = [archive EXCEPT !.targetdir = "title.unpack",
                                                     !.raised = TRUE, !.made = made]
                       /\ unpackdir' = [unpackdir EXCEPT !.isdir = TRUE]
                       /\ upc' = "raised"
                  [] outcome = "written" ->
                       /\ archive' = [archive EXCEPT !.namelist = Tail(@),
                                                     !.targetdir = "title.unpack",
                                                     !.made = made]
                       /\ unpackdir' = [isdir |-> TRUE,
                                        files |-> unpackdir.files \cup {item}]
                       /\ UNCHANGED upc
    /\ UNCHANGED restUnpack

\* return targetdir
UnpackReturn ==
    /\ upc = "loop"
    /\ archive.namelist = <<>>
    /\ upc' = "returned"
    /\ UNCHANGED <<archive, unpackdir, restUnpack>>

\* an exception leaving unpack_archive meets no handler at its call sites in
\* processDir and is caught by "except Exception" around the whole pass
UnpackEscapes ==
    /\ upc = "raised"
    /\ upc' = "aborted"
    /\ UNCHANGED <<archive, unpackdir, restUnpack>>

\* processDir removes a directory ending in '.unpack' after a commit from it
UnpackRemoved ==
    /\ upc = "returned"
    /\ unpackdir.isdir
    /\ unpackdir' = [isdir |-> FALSE, files |-> {}]
    /\ upc' = "idle"
    /\ UNCHANGED <<archive, restUnpack>>

NextUnpack ==
    \/ UnpackBegin
    \/ UnpackItem
    \/ UnpackReturn
    \/ UnpackEscapes
    \/ UnpackRemoved

SpecUnpack == InitT /\ [][NextUnpack]_vars

(***************************************************************************)
(* SpecRefresh: the refresh of a request's name from its download client   *)
(* at the head of an iteration of the matching loop.                       *)
(***************************************************************************)
\* Python's None
None == "None"

\* the truth value of a string or None
Truthy(v) == v \notin {"", None}

\* matchtitle after 'if torrentname and torrentname != matchtitle', assigned
\* without the test
RetitledUnguarded(torrentname, NZBtitle) == torrentname

\* matchtitle when the name the client reports is never taken
RetitledNever(torrentname, NZBtitle) == NZBtitle

\* matchtitle after 'if torrentname and torrentname != matchtitle'
Retitled(torrentname, NZBtitle) ==
    IF Truthy(torrentname) /\ torrentname # NZBtitle THEN torrentname ELSE NZBtitle

\* an iteration of the matching loop begins for a request
RefreshBegin ==
    /\ npc \in {"idle", "matching", "aborted"}
    /\ \E src \in {"SABNZBD", "TRANSMISSION", "QBITTORRENT", "DELUGEWEBUI",
                   "DELUGERPC"}, t \in Titles :
         naming' = [Source |-> src, was |-> t, NZBtitle |-> t, torrentname |-> "",
                    exc |-> "", matchtitle |-> ""]
    /\ npc' = "try"
    /\ UNCHANGED restRefresh

\* what the call of a client may return when it does not raise:
\* deluge.getTorrentFolder the name or None, the DelugeRPCClient call a result
\* with or without 'name', any other torrent client a name, '' or None
Replies(src) ==
    Titles \cup (IF src = "DELUGEWEBUI" THEN {None}
                 ELSE IF src = "DELUGERPC" THEN {""}
                 ELSE {"", None})

\* the call of the client of book['Source'] returns or raises; usenet
\* clients are not asked
AdapterCall ==
    /\ npc = "try"
    /\ IF naming.Source = "SABNZBD"
       THEN npc' = "title" /\ UNCHANGED naming
       ELSE \/ \E nm \in Replies(naming.Source) :
                 /\ naming' = [naming EXCEPT !.torrentname = nm]
                 /\ npc' = "title"
            \/ \E e \in Raised :
                 /\ naming' = [naming EXCEPT !.exc = e]
                 /\ npc' = "except"
    /\ UNCHANGED restRefresh

\* 'except Exception as e': logged, torrentname stays ''
RefreshExcept ==
    /\ npc = "except"
    /\ npc' = IF Caught(naming.exc) THEN "title" ELSE "aborted"
    /\ UNCHANGED <<naming, restRefresh>>

\* matchtitle = book['NZBtitle']; a new name is stored and used for matching
TitleStep ==
    /\ npc = "title"
    /\ LET matchtitle == Retitled(naming.torrentname, naming.NZBtitle) IN
         naming' = [naming EXCEPT !.NZBtitle = matchtitle, !.matchtitle = matchtitle]
    /\ npc' = "matching"
    /\ UNCHANGED restRefresh

NextRefresh ==
    \/ RefreshBegin
    \/ AdapterCall
    \/ RefreshExcept
    \/ TitleStep

SpecRefresh == InitT /\ [][NextRefresh]_vars

(***************************************************************************)
(* SpecRPC: DelugeRPCClient.call (lib/deluge_client/client.py).  The       *)
(* daemon's answer is any decoded list, or none at all.                    *)
(***************************************************************************)
RPC_RESPONSE == 1

RPC_ERROR == 2

RPC_EVENT == 3

\* list(loads(data)): the lists a daemon may send, well-formed or not; the
\* values in them are small numbers
Decoded == UNION {[1..n -> 0..3] : n \in 0..5}

\* a test that takes no message for an error
NoError(msg_type) == FALSE

\* msg_type == RPC_ERROR
IsError(msg_type) == msg_type = RPC_ERROR

\* the statements after the receive loop: two pops, then the branch on the
\* message type; an unpacking of other than three items raises ValueError,
\* a pop or an index past the end IndexError, any other type falls off the
\* end; retval holds the value returned, and nothing for None
Dispatch(data) ==
    IF Len(data) < 2 THEN [raised |-> "IndexError", retval |-> <<>>]
    ELSE LET msg_type == data[1]
             rest == SubSeq(data, 3, Len(data))
         IN  IF IsError(msg_type)
             THEN [raised |-> IF Len(rest) = 3 THEN "Exception" ELSE "ValueError",
                   retval |-> <<>>]
             ELSE IF msg_type = RPC_RESPONSE
             THEN IF rest = <<>> THEN [raised |-> "IndexError", retval |-> <<>>]
                  ELSE [raised |-> "", retval |-> <<rest[1]>>]
             ELSE [raised |-> "", retval |-> <<>>]

\* call: the request is numbered and sent
RpcSend ==
    /\ rpc.at \in {"idle", "done"}
    /\ request_id < MaxRequests
    /\ request_id' = request_id + 1
    /\ rpc' = [at |-> "recv", data |-> <<>>, raised |-> "", retval |-> <<>>]
    /\ UNCHANGED restRPC

\* call: the receive loop ends with a timeout, a lost connection or a
\* message, and the message is dispatched
RpcReceive ==
    /\ rpc.at = "recv"
    /\ \/ \E e \in {"CallTimeoutException", "ConnectionLostException"} :
            rpc' = [at |-> "done", data |-> <<>>, raised |-> e, retval |-> <<>>]
       \/ \E m \in Decoded :
            rpc' = [at |-> "done", data |-> m,
                    raised |-> Dispatch(m).raised, retval |-> Dispatch(m).retval]
    /\ UNCHANGED <<request_id, restRPC>>

NextRPC ==
    \/ RpcSend
    \/ RpcReceive

SpecRPC == InitT /\ [][NextRPC]_vars

(***************************************************************************)
(* SpecScore: the score of one entry name against one title, on strings.   *)
(* A string is a sequence of characters; "#" stands for the five           *)
(* characters ' LL.(' that begin an item tag.                              *)
(***************************************************************************)
Chars == {"a", "b", "_", " ", "#"}

Strings == UNION {[1..n -> Chars] : n \in 0..MaxLen}

\* str.split(' LL.(')[0]
RECURSIVE BeforeTag(_)
BeforeTag(str) ==
    IF str = <<>> \/ Head(str) = "#" THEN <<>>
    ELSE <<Head(str)>> \o BeforeTag(Tail(str))

\* a replace that leaves the string as it is
Unreplaced(str) == str

\* str.replace('_', ' ')
Replaced(str) == [i \in DOMAIN str |-> IF str[i] = "_" THEN " " ELSE str[i]]

\* the words fuzz compares: it splits at blanks and at characters that are
\* neither letters, digits nor underscores; the tag marker leaves the word LL
RECURSIVE Tokens(_, _)
Tokens(str, word) ==
    LET done == IF word = <<>> THEN {} ELSE {word} IN
    IF str = <<>> THEN done
    ELSE IF Head(str) = " " THEN done \cup Tokens(Tail(str), <<>>)
    ELSE IF Head(str) = "#" THEN done \cup {<<"L", "L">>} \cup Tokens(Tail(str), <<>>)
    ELSE Tokens(Tail(str), Append(word, Head(str)))

\* match = fuzz.token_set_ratio(matchtitle, matchname) after the two
\* split(' LL.(')[0].replace('_', ' ')
Match(title, fname) ==
    LET matchname == Replaced(BeforeTag(fname))
        matchtitle == Replaced(BeforeTag(title))
    IN  token_set_ratio(Tokens(matchtitle, <<>>), Tokens(matchname, <<>>))

\* the matching loop turns to a request: its title
ScoreBegin ==
    /\ ~scored.on
    /\ scored.title = <<>>
    /\ \E title \in Strings \ {<<>>} :
         scored' = [on |-> FALSE, title |-> title, fname |-> <<>>, match |-> 0]
    /\ UNCHANGED restScore

\* one entry of the listing is scored against the title
ScoreEntry ==
    /\ ~scored.on
    /\ scored.title # <<>>
    /\ \E fname \in Strings :
         scored' = [scored EXCEPT !.on = TRUE, !.fname = fname,
                                  !.match = Match(scored.title, fname)]
    /\ UNCHANGED restScore

NextScore ==
    \/ ScoreBegin
    \/ ScoreEntry

SpecScore == InitT /\ [][NextScore]_vars

(***************************************************************************)
(* SpecAuth: the Deluge WebUI adapter (lazylibrarian/deluge.py): _get_auth *)
(* and getTorrentFolder, one HTTP exchange at a time, over the session     *)
(* cookies they share.                                                     *)
(***************************************************************************)
\* what an exchange asking for a truth value may give: 'result' true or
\* false, a body that json.loads or ['result'] cannot read, or no response
\* (requests.post raises)
Exchange == {"true", "false", "garbage", "down"}

\* 'while total_done == 0 and tries < 10'
MaxTries == 10

\* a test of 'connected' that any reply passes
AnyReply(reply) == TRUE

\* the truth value of connected = json.loads(response.text)['result']
Connected(reply) == reply = "true"

\* a call begins with nothing asked yet
NoCall == [at |-> "idle", caller |-> "", login |-> "", connected |-> "",
           hosts |-> "", connect |-> "", again |-> "", tries |-> 0,
           auth |-> "", out |-> ""]

\* _get_auth is over with result "auth", "None" or "raised": a direct call
\* ends; getTorrentFolder, which calls it outside its try, goes on after a
\* return and ends with the exception when it raised
AuthOver(w, result) ==
    [w EXCEPT !.auth = result,
              !.at = IF result = "raised" THEN "raised"
                     ELSE IF w.caller = "getTorrentFolder" THEN "status"
                     ELSE "returned",
              !.out = IF result = "raised" \/ w.caller = "_get_auth" THEN result
                      ELSE @]

\* another function of the adapter calls _get_auth
AuthBegin ==
    /\ web.at \in {"idle", "returned", "raised"}
    /\ web' = [NoCall EXCEPT !.at = "auth", !.caller = "_get_auth"]
    /\ UNCHANGED <<delugeweb_auth, restAuth>>

\* getTorrentFolder is called: 'if not any(delugeweb_auth): _get_auth()'
FolderBegin ==
    /\ web.at \in {"idle", "returned", "raised"}
    /\ web' = [NoCall EXCEPT !.at = IF delugeweb_auth = "" THEN "auth" ELSE "status",
                             !.caller = "getTorrentFolder"]
    /\ UNCHANGED <<delugeweb_auth, restAuth>>

\* _get_auth up to its next exchange: the configuration test, auth.login,
\* web.connected, web.get_hosts, web.connect, web.connected again
AuthStep ==
    /\ web.at \in {"auth", "login", "connected", "hosts", "connect", "again"}
    /\ \/ /\ web.at = "auth"
          /\ delugeweb_auth' = ""
          /\ \E configured \in BOOLEAN :
                web' = IF configured THEN [web EXCEPT !.at = "login"]
                       ELSE AuthOver(web, "None")
       \/ /\ web.at = "login"
          /\ \E reply \in Exchange, cookies \in {"", "sid"} :
                LET asked == [web EXCEPT !.login = reply] IN
                IF reply = "garbage"
                THEN /\ UNCHANGED delugeweb_auth
                     /\ web' = AuthOver(asked, "raised")
                ELSE IF reply = "true"
                THEN /\ delugeweb_auth' = cookies
                     /\ web' = [asked EXCEPT !.at = "connected"]
                ELSE /\ delugeweb_auth' = ""
                     /\ web' = AuthOver(asked, "None")
       \/ /\ web.at \in {"connected", "again"}
          /\ \E reply \in Exchange :
                LET asked == IF web.at = "connected"
                             THEN [web EXCEPT !.connected = reply]
                             ELSE [web EXCEPT !.again = reply] IN
                IF reply = "down"
                THEN /\ delugeweb_auth' = ""
                     /\ web' = AuthOver(asked, "None")
                ELSE IF reply = "garbage"
                THEN /\ UNCHANGED delugeweb_auth
                     /\ web' = AuthOver(asked, "raised")
                ELSE IF Connected(reply)
                THEN /\ UNCHANGED delugeweb_auth
                     /\ web' = AuthOver(asked, "auth")
                ELSE IF web.at = "connected"
                THEN /\ UNCHANGED delugeweb_auth
                     /\ web' = [asked EXCEPT !.at = "hosts"]
                ELSE /\ delugeweb_auth' = ""
                     /\ web' = AuthOver(asked, "None")
       \/ /\ web.at = "hosts"
          /\ \E reply \in {"host", "none", "garbage", "down"} :
                LET asked == [web EXCEPT !.hosts = reply] IN
                IF reply = "garbage"
                THEN /\ UNCHANGED delugeweb_auth
                     /\ web' = AuthOver(asked, "raised")
                ELSE IF reply = "host"
                THEN /\ UNCHANGED delugeweb_auth
                     /\ web' = [asked EXCEPT !.at = "connect"]
                ELSE /\ delugeweb_auth' = ""
                     /\ web' = AuthOver(asked, "None")
       \/ /\ web.at = "connect"
          /\ \E reply \in {"ok", "down"} :
                LET asked == [web EXCEPT !.connect = reply] IN
                IF reply = "down"
                THEN /\ delugeweb_auth' = ""
                     /\ web' = AuthOver(asked, "None")
                ELSE /\ UNCHANGED delugeweb_auth
                     /\ web' = [asked EXCEPT !.at = "again"]
    /\ UNCHANGED restAuth

\* the try of getTorrentFolder up to its next exchange: total_done, asked
\* again while it is 0, then the name; any exception gives no name
FolderStep ==
    /\ web.at \in {"status", "name"}
    /\ \/ /\ web.at = "status"
          /\ \E reply \in {"done", "zero", "garbage", "down"} :
                web' = IF reply = "done" \/ (reply = "zero" /\ web.tries >= MaxTries)
                       THEN [web EXCEPT !.at = "name"]
                       ELSE IF reply = "zero"
                       THEN [web EXCEPT !.tries = @ + 1]
                       ELSE [web EXCEPT !.at = "returned", !.out = "None"]
       \/ /\ web.at = "name"
          /\ \E reply \in {"name", "garbage", "down"} :
                web' = [web EXCEPT !.at = "returned",
                                   !.out = IF reply = "name" THEN "name" ELSE "None"]
    /\ UNCHANGED <<delugeweb_auth, restAuth>>

NextAuth ==
    \/ AuthBegin
    \/ FolderBegin
    \/ AuthStep
    \/ FolderStep

SpecAuth == InitT /\ [][NextAuth]_vars

(***************************************************************************)
(* SpecCrash: one request for a book through a pass of processDir, step by *)
(* step after the match, where the process may be killed between two steps *)
(* and a new pass is run afterwards.                                       *)
(***************************************************************************)
\* how often the process is killed
MaxCrashes == 1

\* a pass begins for a request just snatched: its file has arrived in the
\* download directory, its task is at the download client; DESTINATION_COPY
\* and, for a torrent, KEEP_SEEDING are set or not
RedoBegin ==
    /\ redo.at = "idle"
    /\ \E copy \in BOOLEAN, keep \in BOOLEAN :
         redo' = [redo EXCEPT !.at = "select", !.passes = 1, !.copy = copy,
                              !.keep = keep, !.Status = "Snatched",
                              !.source = TRUE, !.task = TRUE]
    /\ UNCHANGED restCrash

\* another pass, after the process was killed or after a complete pass
RedoAgain ==
    /\ redo.at \in {"crashed", "done"}
    /\ redo.passes <= MaxCrashes
    /\ redo' = [redo EXCEPT !.at = "select", !.passes = @ + 1]
    /\ UNCHANGED restCrash

\* the process is killed between two steps of the handling
Crash ==
    /\ redo.at \notin {"idle", "done", "crashed"}
    /\ redo.crashes < MaxCrashes
    /\ redo' = [redo EXCEPT !.at = "crashed", !.crashes = @ + 1]
    /\ UNCHANGED restCrash

\* the handling of the request in processDir, one statement at a time
RedoStep ==
    /\ \/ \* SELECT * from wanted WHERE Status="Snatched", and the search of
          \* the download directory for a file of the wanted kind
          /\ redo.at = "select"
          /\ redo' = [redo EXCEPT !.at = IF redo.Status = "Snatched" /\ redo.source
                                         THEN "commit" ELSE "done"]
       \/ \* processDestination: the file is moved, or copied, to the library;
          \* on failure the row is set Failed
          /\ redo.at = "commit"
          /\ \E success \in BOOLEAN :
               redo' = IF success
                       THEN [redo EXCEPT !.at = "upsert", !.library = TRUE,
                                         !.source = redo.copy]
                       ELSE [redo EXCEPT !.at = "done", !.Status = "Failed"]
       \/ \* myDB.upsert("wanted", {"Status": "Processed", ...})
          /\ redo.at = "upsert"
          /\ redo' = [redo EXCEPT !.at = "extras", !.Status = "Processed"]
       \/ \* processExtras: UPDATE books SET BookFile=? (or AudioFile)
          /\ redo.at = "extras"
          /\ redo' = [redo EXCEPT !.at = "task", !.BookFile = "dest"]
       \/ \* if to_delete: delete_task(book['Source'], book['DownloadID'], False)
          /\ redo.at = "task"
          /\ redo' = [redo EXCEPT !.at = "source", !.task = redo.keep]
       \/ \* if to_delete: shutil.rmtree(pp_path) unless DESTINATION_COPY
          /\ redo.at = "source"
          /\ redo' = [redo EXCEPT !.at = "notify",
                                  !.source = redo.source /\ (redo.keep \/ redo.copy)]
       \/ \* custom_notify_download, notify_download
          /\ redo.at = "notify"
          /\ redo' = [redo EXCEPT !.at = "count", !.notified = @ + 1]
       \/ \* update_downloads(book['NZBprov'])
          /\ redo.at = "count"
          /\ redo' = [redo EXCEPT !.at = "done", !.Count = @ + 1]
    /\ UNCHANGED restCrash

NextCrash ==
    \/ RedoBegin
    \/ RedoAgain
    \/ Crash
    \/ RedoStep

SpecCrash == InitT /\ [][NextCrash]_vars

(***************************************************************************)
(* Properties.                                                             *)
(***************************************************************************)
\* the media kind of the row, by the book's two status columns
KindStatus(bk, b, book_type) ==
    IF book_type = "AudioBook" THEN bk[b].AudioStatus ELSE bk[b].Status

\* the rows the next step of the pass handles: the row of the matching loop
\* or of the stale sweep, or the Snatched rows asking for what the tagged
\* entry holds
Handled ==
    IF pc \in {"match", "stale"} /\ snatched # <<>> THEN {Head(snatched)}
    ELSE IF pc = "sweep" /\ downloads # <<>>
    THEN LET e == Head(downloads)
             pp == [root |-> fs[e].type = "file", entry |-> e]
         IN  AskedFor(TagOf(e), IF "mp3" \in Holds(pp) THEN "AudioBook" ELSE "eBook")
    ELSE {}

\* C1: every row is Snatched, Processed or Failed, and a row is Processed
\* only if processDestination returned success for that row
C1_ProcessedOnlyIfCommitted ==
    \A r \in Recs :
        /\ wanted[r].Status \in {"Snatched", "Processed", "Failed"}
        /\ wanted[r].Status = "Processed" => r \in committed

\* C2: a step never changes the status of a row of a library item other
\* than the rows it handles
C2_NoCrossClear ==
    [][\A x \in Recs \ Handled :
          wanted[x].BookID \in Books => wanted'[x].Status = wanted[x].Status]_vars

\* C3: a row that is Processed or Failed keeps its status
C3_Terminal ==
    [][\A r \in Recs : wanted[r].Status \in {"Processed", "Failed"}
                          => wanted'[r].Status = wanted[r].Status]_vars

\* C4: a failed commit resets a book's status of a media kind to Wanted only
\* if no row of that book and kind is Processed
C4_NoDowngrade ==
    [][\A b \in Books, k \in {"eBook", "AudioBook"} :
          /\ pc \in {"match", "sweep"}
          /\ KindStatus(books, b, k) # "Wanted"
          /\ KindStatus(books', b, k) = "Wanted"
          => ~ \E x \in Recs : /\ wanted[x].BookID = b
                               /\ BookType(wanted[x].AuxInfo) = k
                               /\ wanted[x].Status = "Processed"]_vars

\* C5: at the end of a pass, every row whose commit failed in the pass is
\* Failed, its source path is gone and path + '.fail' exists, and its book,
\* when no row of the book is Processed, is Wanted for that media kind
C5_FailedCommit ==
    pc = "end" =>
      \A f \in failedNow :
          /\ wanted[f.row].Status = "Failed"
          /\ fs[f.path].type = "none"
          /\ fs[FailOf(f.path)].type = "dir"
          /\ (~ \E x \in Recs : /\ wanted[x].BookID = wanted[f.row].BookID
                                /\ wanted[x].Status = "Processed")
             => KindStatus(books, wanted[f.row].BookID,
                           BookType(wanted[f.row].AuxInfo)) = "Wanted"

\* C6: a quarantine directory never holds a nested copy of its source path
C6_OneQuarantine ==
    \A e \in Entries : e.ext = ".fail" => "sub" \notin fs[e].files

\* the rows the stale sweep found Snatched at or above the maximum age
StaleSeen == {r \in sweepSeen.rows : Hours(r) >= CONFIG.TASK_AGE}

C8_Idempotent == pc = "end" /\ calm => ~dirty

\* C9: at the end of a pass every ebook row that was handled while an ebook
\* file clearing the threshold lay directly in the download directory is
\* Processed, and the library holds the file
C9_RootFileProcessed ==
    pc = "end" =>
      \A r \in due : /\ wanted[r].Status = "Processed"
                     /\ "epub" \in lib[wanted[r].BookID]

\* C10: at most one thread is inside the body of a pass
C10_OnePass == Cardinality({t \in Threads : tpc[t] = "pass"}) <= 1

\* C11: a pass always runs to the end of its work: when it ends, no row it
\* selected is left unhandled and, with a maximum age set, its stale sweep
\* has run, whatever failed while listing the directory or handling a row
C11_FailureIsolated ==
    pc = "end" =>
      /\ snatched = <<>>
      /\ CONFIG.TASK_AGE # 0 => sweepSeen # NoSweep

\* C12: no call of processDir ends with an exception reaching its caller
C12_NoEscape == \A t \in Threads : tpc[t] # "escaped"

\* a call of processDir in which an exception was raised has returned
C12_Witness == \E t \in Threads : tpc[t] = "idle" /\ texc[t] \in Raised

\* C13: the download directory always exists under its own name
C13_RootKept == root

\* C14: the removal of the remote task and the deletion of the local source
\* of a request come only after the commit has returned success and the row
\* is Processed, the library item updated, the completion notified and the
\* provider's download counter incremented
C14_BookkeepingFirst ==
    \A i \in 1..Len(hlog) :
        hlog[i] \in {"task_removed", "source_deleted"} =>
            {"success", "Processed", "LibraryItem", "notified", "counted"}
                \subseteq {hlog[j] : j \in 1..(i - 1)}

\* C15: when a commit in move mode has failed, every file the source folder
\* held at the call is in the destination folder or still in the source
\* folder, under its name or its quarantine name
C15_NoSourceLost ==
    cpc = "failed" /\ ~job.copy /\ ~job.calibre =>
        \A f \in job.before :
            \/ f \in disk.pp
            \/ \E d \in disk.dest : d.from = f

\* the place of an issue tag in the sequence of a magazine's issues: its
\* number, or its date read as the number YYYYMMDD; 0 when none is held
Rank(tag) == int(SelectSeq(tag, IsDigit))

\* C16: after the commit of an issue the magazine's latest issue tag is not
\* lower than before; if the issue was older than the one held, the latest
\* tag and cover are those held before, and the issues table has gained
\* nothing but the issue's own row
C16_LatestKept ==
    lastissue.on =>
        LET now == magazines[lastissue.Title] IN
        /\ Rank(now.IssueDate) >= Rank(lastissue.held.IssueDate)
        /\ now.IssueStatus = "Open"
        /\ issues = lastissue.rows \cup
                      {[Title |-> lastissue.Title, IssueDate |-> lastissue.AuxInfo]}
        /\ Rank(lastissue.AuxInfo) < Rank(lastissue.held.IssueDate) =>
              /\ now.IssueDate = lastissue.held.IssueDate
              /\ now.LatestCover = lastissue.held.LatestCover

\* issue 9 has been committed for a magazine that held issue 10
C16_Witness ==
    /\ lastissue.on
    /\ lastissue.AuxInfo = <<57>>
    /\ lastissue.held.IssueDate = <<49, 48>>
    /\ magazines["Numbered"].IssueDate = <<49, 48>>

\* C17: when unpack_archive has returned, an archive holding a payload whose
\* directory could be created has yielded title + '.unpack', and the
\* directory returned holds exactly the payload entries of the archive
C17_ExactPayload ==
    upc = "returned" =>
        LET wanted_entries == {f \in archive.entries : Payload(f)} IN
        /\ wanted_entries # {} /\ ~archive.denied => archive.targetdir = "title.unpack"
        /\ archive.targetdir # "" =>
              unpackdir.isdir /\ unpackdir.files = wanted_entries

\* C18: a refresh that raises or gives no name never ends the iteration, and
\* when matching begins after it the stored title is the one the request
\* had, and it is the title matched against
C18_RefreshFailure ==
    /\ npc # "aborted"
    /\ npc = "matching" /\ ~Truthy(naming.torrentname) =>
          /\ naming.NZBtitle = naming.was
          /\ naming.matchtitle = naming.was

\* the client call raised, and matching has begun with the stored title
C18_Witness ==
    /\ npc = "matching"
    /\ naming.exc \in Raised
    /\ naming.matchtitle = naming.was

\* C19: a call that decoded a message of type RPC_ERROR has raised
C19_ErrorRaises ==
    rpc.at = "done" /\ rpc.data # <<>> /\ rpc.data[1] = RPC_ERROR => rpc.raised # ""

\* a call has ended on a well-formed error message
C19_Witness ==
    /\ rpc.at = "done"
    /\ Len(rpc.data) = 5
    /\ rpc.data[1] = RPC_ERROR
    /\ rpc.raised = "Exception"

\* the words of a string up to its tag marker, underscores and blanks both
\* separating words, in the order they stand
RECURSIVE WordsOf(_, _)
WordsOf(str, word) ==
    LET done == IF word = <<>> THEN <<>> ELSE <<word>> IN
    IF str = <<>> \/ Head(str) = "#" THEN done
    ELSE IF Head(str) \in {" ", "_"} THEN done \o WordsOf(Tail(str), <<>>)
    ELSE WordsOf(Tail(str), Append(word, Head(str)))

\* the multiset of the words of a string: each word with its number
WordBag(str) ==
    LET ws == WordsOf(str, <<>>) IN
    [w \in {ws[i] : i \in DOMAIN ws} |-> Cardinality({i \in DOMAIN ws : ws[i] = w})]

\* C20: a title and an entry name whose normalised strings have the same
\* multiset of words score 100
C20_SameWords ==
    scored.on /\ WordBag(scored.title) = WordBag(scored.fname) => scored.match = 100

\* 'a b' has been scored 100 against 'b_a', the same words in another order
\* and with an underscore for the blank
C20_Witness ==
    /\ scored.on
    /\ scored.title = <<"a", " ", "b">>
    /\ scored.fname = <<"b", "_", "a">>
    /\ scored.match = 100

\* C21: the handling of one request changes at most one entry that the
\* download directory held and that is not a quarantine directory
C21_OneCandidate ==
    [][pc = "match" /\ snatched # <<>> =>
         Cardinality({e \in Entries : /\ e.ext # ".fail"
                                       /\ fs[e].type # "none"
                                       /\ fs'[e] # fs[e]}) <= 1]_vars

\* the entries the matching loop scores: those without a skipped extension
Eligible(e) == ~(Extn(e) # "" /\ Extn(e) \in skipped_extensions)

\* C22: when no eligible entry of the listing scores the threshold against
\* the title of the request, handling the request changes neither its
\* status, nor the books table, nor the download directory
C22_NoMatchNoChange ==
    [][/\ pc = "match"
       /\ snatched # <<>>
       /\ \A i \in DOMAIN downloads :
             Eligible(downloads[i]) =>
                Score(wanted'[Head(snatched)].NZBtitle, downloads[i]) < DLOAD_RATIO
       => /\ wanted'[Head(snatched)].Status = wanted[Head(snatched)].Status
          /\ books' = books
          /\ fs' = fs
          /\ root' = root]_vars

\* the first request has been handled against a listing that holds nothing
\* but a payload of another title, and it is still Snatched
C22_Witness ==
    /\ pc = "match"
    /\ snatched = <<"url2">>
    /\ downloads = <<[stem |-> "Other_Book LL.(b1)", ext |-> ""]>>
    /\ fs[downloads[1]].type = "dir"
    /\ wanted["url1"].NZBtitle = "The Great Escape"
    /\ wanted["url1"].Status = "Snatched"

\* C23: a failure to extract an archive, whether its directory cannot be
\* created or an entry cannot be read or written, does not end the pass
C23_ExtractContained ==
    archive.denied \/ archive.raised => upc # "aborted"

\* an entry of an archive that names a book, audiobook or magazine file
PayloadEntries == {f \in archive.entries : f.ext \in {"epub", "mp3"}}

\* C24: unpack_archive returns '' and creates no directory for a path that is
\* not a regular file, not a recognised archive or an archive without payload;
\* the directory is created at most once per archive and only for a payload
C24_NoPayloadNoDir ==
    /\ archive.made <= 1
    /\ archive.made = 1 => PayloadEntries # {}
    /\ upc = "returned" /\ (archive.kind \notin Archives \/ PayloadEntries = {}) =>
          /\ archive.targetdir = ""
          /\ archive.made = 0
          /\ unpackdir.isdir = archive.was

C24_Witness ==
    /\ upc = "returned"
    /\ archive.kind = "zip"
    /\ archive.entries = {[stem |-> "c", ext |-> "jpg"]}
    /\ archive.targetdir = ""
    /\ ~unpackdir.isdir

\* C25: when processDestination has copied the files itself and returned
\* success, the path it returns names a file of the wanted type that is in
\* the destination folder
C25_FinalPath ==
    cpc = "returned" /\ ~job.calibre =>
        /\ job.newbookfile.dir = "dest_path"
        /\ Valid(job.newbookfile.file, job.booktype)
        /\ \E d \in disk.dest : d.name = job.newbookfile.file

\* C26: after a successful commit of an ebook or magazine without calibre,
\* every file the loop selected is a file of its own in the destination
C26_OwnFile ==
    cpc = "returned" /\ ~job.calibre /\ job.booktype \in {"ebook", "mag"} =>
        \A f \in job.before :
            ~Ignored(f, job.booktype, job.bestmatch) /\ Taken(f, job.booktype) =>
                \E d \in disk.dest : d.from = f

\* the extensions, in lower case, of the media type wanted
WantedTypes(booktype) == IF booktype = "audiobook" THEN {"mp3"} ELSE {"epub", "mobi"}

\* C27: when the source folder holds no file of the wanted type,
\* processDestination returns failure and has created, copied, moved,
\* renamed and deleted nothing
C27_NotFoundUntouched ==
    /\ cpc \notin {"idle", "failed"}
    /\ \A f \in job.before : Lower(f.ext) \notin WantedTypes(job.booktype)
    => /\ cpc = "nomatch"
       /\ disk = [pp |-> job.before, dest |-> {}, made |-> FALSE, place |-> "pp_path"]

C27_Witness ==
    /\ cpc = "nomatch"
    /\ job.booktype = "ebook"
    /\ job.before = {[stem |-> "c", ext |-> "jpg"], [stem |-> "p", ext |-> "mp3"]}
    /\ disk.pp = job.before

\* C28: with ONE_FORMAT, the book files an ebook commit leaves in the
\* destination come from exactly the source files of the first type of
\* EBOOK_TYPE of which the source folder holds a file
C28_OneFormat ==
    cpc = "returned" /\ ~job.calibre /\ job.booktype = "ebook" /\ job.one =>
        LET held == SelectSeq(EBOOK_TYPE, LAMBDA btype :
                        \E f \in job.before : Lower(f.ext) = btype)
            books_committed == {d.from : d \in {c \in disk.dest :
                                            Lower(c.from.ext) \in WantedTypes("ebook")}} IN
        held # <<>> =>
            /\ books_committed # {}
            /\ books_committed = {f \in job.before : Lower(f.ext) = Head(held)}

\* C29: a commit through calibredb that returned success had a reply with
\* return code 0, without "already exist" and with "Added book ids"
C29_ImporterRejects ==
    cpc = "returned" /\ job.calibre =>
        /\ job.reply.rc = 0
        /\ "already exist" \notin job.reply.res \cup job.reply.err
        /\ "Added book ids" \in job.reply.res

C29_Witness ==
    /\ cpc = "else"
    /\ job.calibre
    /\ job.reply = [res |-> {"Added book ids", "already exist"}, err |-> {}, rc |-> 0]

HasFile(b, e) ==
    /\ b \in Books
    /\ IF fs[e].type = "dir" /\ "mp3" \in fs[e].files
       THEN books[b].AudioFile # "" /\ "mp3" \in lib[b]
       ELSE books[b].BookFile # "" /\ "epub" \in lib[b]

\* C31: an iteration of the tag sweep changes a request, a book, the library
\* or the download directory only for an entry that carries a tag, has no
\* skipped extension and whose book has no recorded file on disk for the
\* media kind the entry holds
C31_SweepSkips ==
    [][pc = "sweep" /\ downloads # <<>> =>
         LET e == Head(downloads) IN
         <<wanted, books, lib, fs, root>>' # <<wanted, books, lib, fs, root>> =>
             /\ TagOf(e) # ""
             /\ ~(Extn(e) # "" /\ Extn(e) \in skipped_extensions)
             /\ ~HasFile(TagOf(e), e)]_vars

C34_FolderNeverRaises ==
    web.caller = "getTorrentFolder" => web.at # "raised"

\* C35: when a pass was killed during the handling of a request and a
\* complete pass has run afterwards, the state is that of a pass never
\* interrupted: a request whose file was committed is Processed, its
\* LibraryItem points at the committed file, and the download is counted
\* once
C35_Converges ==
    redo.at = "done" /\ redo.library /\ redo.Status # "Failed" =>
        /\ redo.Status = "Processed"
        /\ redo.BookFile = "dest"
        /\ redo.Count = 1

C37_OnlySnatchedReset ==
    [][pc = "stale" /\ snatched # <<>> =>
         \A b \in Books, k \in {"eBook", "AudioBook"} :
            KindStatus(books', b, k) # KindStatus(books, b, k) =>
               /\ KindStatus(books, b, k) = "Snatched"
               /\ KindStatus(books', b, k) = "Wanted"]_vars

\* the stale sweep has failed a row of a book that is Open for the media
\* kind the row asked for
C37_Witness ==
    /\ pc = "stale"
    /\ \E r \in Recs :
          /\ wanted[r].BookID \in Books
          /\ wanted[r].Status = "Failed"
          /\ Removal(r, TRUE) \in removed
          /\ r \in sweepSeen.rows
          /\ KindStatus(books, wanted[r].BookID, BookType(wanted[r].AuxInfo)) = "Open"

\* C38: a call returns a value only on a message of type RPC_RESPONSE that
\* carries the request_id the call sent; an event, or a response to another
\* request, is never handed back as the result
C38_OwnResponse ==
    rpc.at = "done" /\ rpc.raised = "" /\ rpc.retval # <<>> =>
        /\ rpc.data[1] = RPC_RESPONSE
        /\ rpc.data[2] = request_id

\* C39: a thread whose call of processDir is over, however it ended, is not
\* named POSTPROCESS
C39_NotMarked ==
    \A t \in Threads : tpc[t] \in {"idle", "escaped"} => tname[t] # "POSTPROCESS"

\* a pass has ended on an exception and its thread is named WEBSERVER, while
\* a pass triggered later runs on another thread as POSTPROCESS
C39_Witness ==
    \E t \in Threads, u \in Threads :
        /\ tpc[t] = "idle"
        /\ texc[t] \in Raised
        /\ tname[t] = "WEBSERVER"
        /\ tpc[u] = "pass"
        /\ tname[u] = "POSTPROCESS"

====
